---- MODULE Spec2Model ----
(***************************************************************************)
(* Model of the agent-worker of neuroslav: the polling coordinator         *)
(* (coordinator.ts), the retry wrapper, the scroll loader and the browser   *)
(* scraper (scraper.ts), the analyst (analyst.ts) and the writer            *)
(* (writer.ts); and of the standalone hybrid extractor (extractor/index.js  *)
(* with its browser fallback extract.js).                                   *)
(*                                                                         *)
(* External services (Notion, OpenAI, Playwright) are nondeterministic:    *)
(* every call either returns or throws.  A throwing notion.pages.update is  *)
(* taken not to have changed the page.                                      *)
(***************************************************************************)
EXTENDS Integers, Sequences, FiniteSets, TLC

\* ------------------------------------------------------------------ bounds
MaxDocs == 2
MaxItems == 1
MaxRetriesBound == 4
MaxBlocks == 2
MaxScrollsBound == 4
MaxHeight == 3
MaxElems == 2
MaxTasks == 3
MaxTreeBlocks == 3

\* ------------------------------------------------------- program constants
DefaultPollInterval == 60000
FallbackDelay == 30000
BackoffUnit == 1000
CoordinatorMaxRetries == 3
ApiMinLength == 100
FatalExitCode == 1

Docs == 1..MaxDocs
NoDoc == 0

MeetingStatus == {"Ready to Process", "Processing", "Done", "Error"}

\* Statuses of the pages when the coordinator starts.  A page that is not
\* 'Ready to Process' is never returned by the discovery query, whichever
\* other status it has; 'Processing' stands for them.
InitialStatuses == {"Ready to Process", "Processing"}

\* POLL_INTERVAL values the environment may hold: the variable is unset or
\* holds the default, and parseInt gives 60000.
PollIntervals == {DefaultPollInterval}

RequiredEnv == <<"NOTION_TOKEN", "OPENAI_API_KEY", "NOTION_DB_ID", "NOTION_TASKS_DB_ID">>

\* exitCode while process.exit has not been called.
NoExit == -1

\* ---------------------------------------------------------------- strings
\* Page text is a sequence of characters; NullText is the JS null.
NullText == <<"\\0">>
SummaryTexts == {NullText, <<>>, <<" ">>, <<"a">>, <<" ", "a", " ">>}

\* trim() strips line breaks as well as blanks.
IsSpace(c) == c \in {" ", "\n"}

\* The positions of s that hold something else than white space.
Inked(s) == {i \in 1..Len(s) : ~IsSpace(s[i])}

TrimLeft(s) ==
  IF Inked(s) = {} THEN <<>>
  ELSE SubSeq(s, CHOOSE i \in Inked(s) : \A j \in Inked(s) : i <= j, Len(s))

TrimRight(s) ==
  IF Inked(s) = {} THEN <<>>
  ELSE SubSeq(s, 1, CHOOSE i \in Inked(s) : \A j \in Inked(s) : i >= j)

\* String.prototype.trim
Trim(s) == TrimRight(TrimLeft(s))

\* JS truthiness of a string-or-null value
TruthyText(s) == s # NullText /\ s # <<>>

RECURSIVE Pow2(_)
Pow2(k) == IF k = 0 THEN 1 ELSE 2 * Pow2(k - 1)

\* ------------------------------------------------------------------- state
VARIABLES
  pc,            \* position of runCoordinator
  cfgError,      \* name of the env variable loadConfig rejected, or "none"
  envSet,        \* which of the required env variables are set, by position
  exitCode,      \* argument of process.exit, NoExit while the process runs
  pollInterval,  \* cfg.pollInterval
  status,        \* status property of every meeting page in the store
  found,         \* pages returned by the last discovery query, in order
  pages,         \* pages of the for loop not yet processed
  queryThrew,    \* the last notion.databases.query threw
  delay,         \* argument of the setTimeout the poll loop is waiting on
  cur,           \* page of the running / last processPage call
  step,          \* position inside processPage
  scraperResult, \* processPage local
  analystResult, \* processPage local
  writerResult,  \* processPage local
  rpc,           \* position inside scrapeWithRetry
  maxRetries,    \* scrapeWithRetry parameter
  attempt,       \* scrapeWithRetry loop variable
  retryResult,   \* value returned by scrapeWithRetry
  attemptLog,    \* outcome of every scrapeMeetingContent call of this scrapeWithRetry
  sessionLoaded, \* the last scrapeMeetingContent call got its context from auth.json
  browsersOpen,  \* browsers launched by scrapeMeetingContent with no close() call yet
  peakOpen,      \* the most browsers open at once since scrapeWithRetry was entered
  navigated,     \* the last scrapeMeetingContent call reached page.goto
  sleeps,        \* delay of every backoff sleep of this scrapeWithRetry
  written,       \* statuses successfully written to each page, in order
  statusAttempts,\* status writes attempted by this processPage call: <<status, ok>>
  stageCalls,    \* agents invoked by this processPage call, in order
  callDocs,      \* pages external calls of this cycle were issued for, in order
  created,       \* number of task records this processPage call created
  appended,      \* blocks this processPage call appended to its page, in order
  xpc,           \* position of extractData (extractor/index.js)
  pageId,        \* extractData was given a page id
  notionToken,   \* NOTION_TOKEN is set in the extractor's environment
  apiBlocks,     \* text of every block extractViaAPI obtained, in order
  apiResult,     \* extractData local
  playwrightResult, \* extractData local
  extractResult, \* value returned by extractData
  agentCalls,    \* agents extractData invoked, in order
  xAuth,         \* how extractViaPlaywright authorised its context
  xNavigated,    \* extractViaPlaywright reached page.goto
  xAuthFile,     \* notion-auth.json existed when extractViaPlaywright ran
  spc,           \* position of smartScroll
  maxScrolls,    \* smartScroll parameter
  scrollCount,   \* smartScroll local
  previousHeight,\* smartScroll local
  heights,       \* every scrollHeight this smartScroll call has read, in order
  scrolls,       \* number of window.scrollBy calls of this smartScroll call
  waits,         \* number of waitForTimeout calls of this smartScroll call
  apc,           \* position of an analyzeMeetingContent call made on its own
  modelOutcome,  \* what the chat completion of that call did
  wpc,           \* position of a writeToNotion call made on its own
  wData,         \* the StructuredMeetingData that call was given
  createLog,     \* notion.pages.create calls of that call: item and outcome, in order
  updateThrew,   \* an append of updateMeetingPage threw in that call
  ipc,           \* position of runCoordinator in each coordinator instance
  ipages,        \* pages of the for loop not yet processed, in each instance
  icur,          \* page of the running processPage call of each instance
  runs,          \* instances that invoked the agents for each page, in order
  records,       \* instances that created task records for each page, in order
  attemptsOf,    \* status writes of the latest processPage call for each page
  wParent,       \* the block tree of the page: the parent of each block (0: the page)
  wCuts,         \* the blocks a page of a children list ends with
  wFail,         \* the blocks.children.list call that throws, by number (0: none)
  wMarked,       \* the block whose text holds a summary marker (0: none)
  walked,        \* the blocks getAllBlocksRecursive returned, in order
  listCalls      \* the blocks.children.list calls of that walk, in order

coordRest == <<pc, cfgError, envSet, exitCode, pollInterval, status, found, pages,
               queryThrew, delay,
               cur, step, scraperResult, analystResult, writerResult,
               written, statusAttempts, stageCalls, created, appended>>
coordVars == <<coordRest, callDocs>>
scrapeVars == <<sessionLoaded, navigated, browsersOpen, peakOpen>>
retryVars == <<rpc, maxRetries, attempt, retryResult, attemptLog, sleeps, scrapeVars>>
extractVars == <<xpc, pageId, notionToken, apiBlocks, apiResult, playwrightResult,
                 extractResult, agentCalls, xAuth, xNavigated, xAuthFile>>
scrollVars == <<spc, maxScrolls, scrollCount, previousHeight, heights, scrolls, waits>>
analysisVars == <<apc, modelOutcome>>
writerVars == <<wpc, wData, createLog, updateThrew>>
fleetVars == <<ipc, ipages, icur, runs, records, attemptsOf>>
walkVars == <<wParent, wCuts, wFail, wMarked, walked, listCalls>>
toolVars == <<extractVars, scrollVars, analysisVars, writerVars, fleetVars, walkVars>>
vars == <<coordVars, retryVars, toolVars>>

\* The pages external calls were issued for, after one more call for page d
\* (no page when scrapeWithRetry runs outside processPage).
Touched(d) ==
  IF d = NoDoc \/ (callDocs # <<>> /\ callDocs[Len(callDocs)] = d)
    THEN callDocs ELSE Append(callDocs, d)

\* --------------------------------------------------------------- results
\* An error message is a sequence of message parts.
NoResult == [success |-> FALSE, content |-> <<>>, error |-> <<"unset">>]

\* ============================================================ scraper.ts
\* scrapeMeetingContent, lines 181-194: the result built from summaryText.
ScrapeResultOf(summaryText) ==
  IF TruthyText(summaryText) /\ TruthyText(Trim(summaryText))
    THEN [success |-> TRUE, content |-> Trim(summaryText), error |-> <<"none">>]
    ELSE [success |-> FALSE, content |-> <<>>, error |-> <<"no AI Summary content">>]

\* scrapeMeetingContent, lines 196-204: an exception inside the try block.
ScrapeCaught == [success |-> FALSE, content |-> <<>>, error |-> <<"scrape exception">>]

\* Outcomes of one scrapeMeetingContent call: chromium.launch throws
\* (outside the try block), the context or the page cannot be created,
\* page.goto or something after it throws, or the three strategies leave
\* some summaryText.  session: auth.json exists and its state was loaded.
ScrapeOutcomes ==
  {[kind |-> "launchThrow", text |-> NullText, session |-> FALSE]}
  \cup {[kind |-> k, text |-> NullText, session |-> s] :
          k \in {"contextThrow", "bodyThrow"}, s \in BOOLEAN}
  \cup {[kind |-> "text", text |-> t, session |-> s] : t \in SummaryTexts, s \in BOOLEAN}

\* scrapeMeetingContent, lines 57-59: chromium.launch returned a browser.
Launched(o) == o.kind # "launchThrow"

\* Mutation: the browser is closed only when the try block runs to its end.
CloseOnlyInTry(o) == o.kind = "text"

\* scrapeMeetingContent, line 188 (the end of the try block, before either
\* result is returned) and line 198 (the catch block): browser.close() is
\* called on every path that has a browser.
CloseCalled(o) == o.kind \in {"contextThrow", "bodyThrow", "text"}

\* scrapeMeetingContent, lines 67-79: the context comes from auth.json.
SessionLoaded(o) == o.kind # "launchThrow" /\ o.session

\* scrapeMeetingContent, lines 82-95: without a stored session a fresh
\* context is created, and page.goto is reached with either context.
Navigates(o) == o.kind \in {"bodyThrow", "text"}

scrapeMeetingContent(o) ==
  IF o.kind \in {"contextThrow", "bodyThrow"} THEN ScrapeCaught ELSE ScrapeResultOf(o.text)

\* Mutation: the delay grows linearly instead of doubling.
BackoffLinear(a) == 2 * a * BackoffUnit

\* scrapeWithRetry, line 225
BackoffDelay(a) == Pow2(a) * BackoffUnit

\* Mutation: a sleep follows the last attempt too.
SleepsAfterEvery(a, n) == a <= n

\* scrapeWithRetry, line 224
SleepsAfter(a, n) == a < n

\* Mutation: the loop runs once more than maxRetries.
LoopContinuesOnceMore(a, n) == a <= n + 1

\* scrapeWithRetry, line 215: the loop condition
LoopContinues(a, n) == a <= n

\* Mutation: the message reports the loop variable as it stands after the loop.
RetriesExhaustedLoopVariable(n) ==
  [success |-> FALSE, content |-> <<>>,
   error |-> <<"content not extracted after", ToString(n + 1), "attempts">>]

\* scrapeWithRetry, lines 231-234: a fixed message holding maxRetries.
RetriesExhausted(n) ==
  [success |-> FALSE, content |-> <<>>,
   error |-> <<"content not extracted after", ToString(n), "attempts">>]

\* Mutation: an exception of scrapeMeetingContent is handled like a failure
\* that was returned, with a backoff sleep and another attempt.
LaunchThrowRetried == "sleep"

\* scrapeWithRetry, line 218: the call is in no try block, so an exception
\* of scrapeMeetingContent (chromium.launch, scraper.ts lines 57-59) leaves
\* scrapeWithRetry at once.
AfterLaunchThrow == "threw"

\* scrapeWithRetry entered with maxRetries = n: lines 215 and 231-234.
RetryEntry(n) ==
  [rpc |-> IF LoopContinues(1, n) THEN "call" ELSE "done",
   retryResult |-> IF LoopContinues(1, n) THEN NoResult ELSE RetriesExhausted(n)]

EnterRetry(n) ==
  /\ maxRetries' = n
  /\ attempt' = 1
  /\ attemptLog' = <<>>
  /\ sleeps' = <<>>
  /\ sessionLoaded' = FALSE
  /\ navigated' = FALSE
  /\ peakOpen' = browsersOpen
  /\ UNCHANGED browsersOpen
  /\ rpc' = RetryEntry(n).rpc
  /\ retryResult' = RetryEntry(n).retryResult

\* One iteration of the loop up to the sleep: lines 216-228.
ScrapeAttempt ==
  /\ UNCHANGED toolVars
  /\ rpc = "call"
  /\ \E o \in ScrapeOutcomes :
       /\ sessionLoaded' = SessionLoaded(o)
       /\ navigated' = Navigates(o)
       /\ peakOpen' = IF Launched(o) /\ browsersOpen + 1 > peakOpen
                        THEN browsersOpen + 1 ELSE peakOpen
       /\ browsersOpen' = browsersOpen + (IF Launched(o) THEN 1 ELSE 0)
                                       - (IF CloseCalled(o) THEN 1 ELSE 0)
       /\ IF o.kind = "launchThrow"
            THEN /\ attemptLog' = Append(attemptLog, <<"throw">>)
                 /\ rpc' = AfterLaunchThrow
                 /\ UNCHANGED <<attempt, retryResult>>
            ELSE LET r == scrapeMeetingContent(o) IN
                 IF r.success
                   THEN /\ attemptLog' = Append(attemptLog, <<"ok">>)
                        /\ rpc' = "done"
                        /\ retryResult' = r
                        /\ UNCHANGED attempt
                   ELSE /\ attemptLog' = Append(attemptLog, r.error)
                        /\ IF SleepsAfter(attempt, maxRetries)
                             THEN rpc' = "sleep" /\ UNCHANGED <<attempt, retryResult>>
                             ELSE /\ attempt' = attempt + 1
                                  /\ IF LoopContinues(attempt + 1, maxRetries)
                                       THEN rpc' = "call" /\ UNCHANGED retryResult
                                       ELSE /\ rpc' = "done"
                                            /\ retryResult' = RetriesExhausted(maxRetries)
  /\ callDocs' = Touched(cur)
  /\ UNCHANGED <<maxRetries, sleeps, coordRest>>

\* The backoff sleep elapses: lines 225-227, then attempt++.
BackoffSleep ==
  /\ UNCHANGED toolVars
  /\ rpc = "sleep"
  /\ sleeps' = Append(sleeps, BackoffDelay(attempt))
  /\ attempt' = attempt + 1
  /\ IF LoopContinues(attempt + 1, maxRetries)
       THEN rpc' = "call" /\ UNCHANGED retryResult
       ELSE rpc' = "done" /\ retryResult' = RetriesExhausted(maxRetries)
  /\ UNCHANGED <<maxRetries, attemptLog, scrapeVars, coordVars>>

\* ===================================================== extractor/index.js
\* The text joined by join('\n\n').
RECURSIVE JoinBlocks(_)
JoinBlocks(ts) ==
  IF ts = <<>> THEN <<>>
  ELSE IF Len(ts) = 1 THEN ts[1]
  ELSE ts[1] \o <<"\n", "\n">> \o JoinBlocks(Tail(ts))

\* The letters the page texts of the model are written with.
UpperCase == {"A", "I", "S", "N"}
LowerCase == {"a", "i", "s", "n", "u", "m", "r", "y", "e", "z", "x"}

ToLower(c) ==
  CASE c = "A" -> "a" [] c = "I" -> "i" [] c = "S" -> "s" [] c = "N" -> "n" [] OTHER -> c

\* The alternatives of /AI Summary|Summary|Саммари|Резюме/i, in order and in
\* lower case; the two Russian words are spelled in Latin letters.
SummaryMarkers ==
  << <<"a", "i", " ", "s", "u", "m", "m", "a", "r", "y">>,
     <<"s", "u", "m", "m", "a", "r", "y">>,
     <<"s", "a", "m", "m", "a", "r", "i">>,
     <<"r", "e", "z", "u", "m", "e">> >>

\* The alternative m matches the text at position i, whatever the case.
MatchesAt(text, i, m) ==
  /\ i + Len(m) - 1 <= Len(text)
  /\ \A k \in 1..Len(m) : ToLower(text[i + k - 1]) = m[k]

MarkerAt(text, i) == \E a \in 1..Len(SummaryMarkers) : MatchesAt(text, i, SummaryMarkers[a])

\* RegExp.prototype.test of the marker expression
HasMarker(text) == \E i \in 1..Len(text) : MarkerAt(text, i)

\* The lookahead (?=\n\n(?:[A-ZА-Я]|$)|$) at position j; with the i flag the
\* letter class takes both cases.
SectionEndsAt(text, j) ==
  \/ j = Len(text) + 1
  \/ /\ j + 1 <= Len(text)
     /\ text[j] = "\n" /\ text[j + 1] = "\n"
     /\ \/ j + 1 = Len(text)
        \/ text[j + 2] \in UpperCase \cup LowerCase

\* String.prototype.match of extractViaAPI, lines 236-238, on a text that
\* holds a marker: from the first marker to the first section end.
SummarySection(text) ==
  LET i == CHOOSE p \in 1..Len(text) :
             MarkerAt(text, p) /\ \A q \in 1..(p - 1) : ~MarkerAt(text, q)
      a == CHOOSE b \in 1..Len(SummaryMarkers) :
             /\ MatchesAt(text, i, SummaryMarkers[b])
             /\ \A c \in 1..(b - 1) : ~MatchesAt(text, i, SummaryMarkers[c])
      from == i + Len(SummaryMarkers[a])
      j == CHOOSE e \in from..(Len(text) + 1) :
             SectionEndsAt(text, e) /\ \A f \in from..(e - 1) : ~SectionEndsAt(text, f)
  IN SubSeq(text, i, j - 1)

\* A run of n characters c.
RECURSIVE Rep(_, _)
Rep(c, n) ==
  IF n = 0 THEN <<>>
  ELSE IF n % 2 = 0 THEN Rep(c, n \div 2) \o Rep(c, n \div 2)
  ELSE <<c>> \o Rep(c, n - 1)

\* Texts of the blocks of a page: none, short and long runs around the
\* threshold (49 + 2 + 49 = 100), blanks only, and texts with a marker or
\* starting like a heading.
BlockTexts ==
  {<<>>, Rep("x", 40), Rep("x", 49), Rep("x", 50), Rep("x", ApiMinLength),
   Rep("x", ApiMinLength + 1), Rep(" ", ApiMinLength + 1),
   <<"A", "I", " ", "S", "u", "m", "m", "a", "r", "y">>,
   <<"x", " ", "s", "u", "m", "m", "a", "r", "y", " ", "x">>,
   <<"N", "x">>}

RECURSIVE SeqsUpTo(_, _)
SeqsUpTo(S, n) ==
  IF n = 0 THEN {<<>>}
  ELSE SeqsUpTo(S, n - 1) \cup {Append(q, e) : q \in SeqsUpTo(S, n - 1), e \in S}

\* Mutation: a text of exactly the threshold length is enough.
ReachesThreshold(n) == n >= ApiMinLength

\* extractViaAPI, line 230: the length test
ExceedsThreshold(n) == n > ApiMinLength

\* Outcomes of the block walk of extractViaAPI: something in the try block
\* throws, or getAllBlocksRecursive returns blocks with these texts.
ApiOutcome(kind, blocks) ==
  [kind |-> kind, blocks |-> IF kind = "throw" THEN <<>> ELSE blocks]

\* extractViaAPI, lines 180-264
extractViaAPI(token, o) ==
  IF ~token
    THEN [success |-> FALSE, content |-> <<>>, error |-> <<"NOTION_TOKEN is not set">>]
  ELSE IF o.kind = "throw"
    THEN [success |-> FALSE, content |-> <<>>, error |-> <<"Notion API exception">>]
  ELSE IF Len(o.blocks) = 0
    THEN [success |-> FALSE, content |-> <<>>, error |-> <<"no blocks from the API">>]
  ELSE
    LET allText == SelectSeq(o.blocks, LAMBDA t : t # <<>>)
        foundSummary == \E i \in 1..Len(allText) : HasMarker(allText[i])
        fullText == JoinBlocks(allText)
    IN IF foundSummary \/ ExceedsThreshold(Len(fullText))
         THEN [success |-> TRUE,
               content |-> IF foundSummary /\ HasMarker(fullText)
                             THEN Trim(SummarySection(fullText))
                             ELSE Trim(fullText),
               error |-> <<"none">>]
         ELSE [success |-> FALSE, content |-> <<>>,
               error |-> <<"no AI Summary content in the blocks">>]

\* Outcomes of one extractViaPlaywright call (extract.js): chromium.launch
\* throws (outside the try block), creating the context or the page throws,
\* page.goto or something after it throws, or the strategies leave some
\* summaryText.  cookieOk: context.addCookies returns; authFile:
\* notion-auth.json exists.
PlaywrightOutcomes ==
  {[kind |-> "launchThrow", text |-> NullText, cookieOk |-> FALSE, authFile |-> FALSE]}
  \cup {[kind |-> k, text |-> NullText, cookieOk |-> c, authFile |-> f] :
          k \in {"contextThrow", "bodyThrow"}, c \in BOOLEAN, f \in BOOLEAN}
  \cup {[kind |-> "text", text |-> t, cookieOk |-> c, authFile |-> f] :
          t \in SummaryTexts, c \in BOOLEAN, f \in BOOLEAN}

\* extractViaPlaywright, lines 82-123: the token cookie first, then the
\* stored session, else no context.
PlaywrightAuth(token, o) ==
  IF token /\ o.cookieOk THEN "token"
  ELSE IF o.authFile THEN "session"
  ELSE "none"

\* Mutation: the page is opened whether or not a context was authorised.
PlaywrightNavigatesAlways(token, o) == o.kind \in {"bodyThrow", "text"}

\* extractViaPlaywright, lines 110-137: page.goto is reached only with a context.
PlaywrightNavigates(token, o) ==
  PlaywrightAuth(token, o) # "none" /\ o.kind \in {"bodyThrow", "text"}

\* extractViaPlaywright, lines 74-249, once the browser is launched
extractViaPlaywright(token, o) ==
  IF o.kind = "contextThrow" /\ (token \/ o.authFile)
    THEN [success |-> FALSE, content |-> <<>>, error |-> <<"extraction exception">>]
  ELSE IF PlaywrightAuth(token, o) = "none"
    THEN [success |-> FALSE, content |-> <<>>, error |-> <<"not authorised">>]
  ELSE IF o.kind = "bodyThrow"
    THEN [success |-> FALSE, content |-> <<>>, error |-> <<"extraction exception">>]
  ELSE ScrapeResultOf(o.text)

NoExtract == [success |-> FALSE, content |-> <<>>, method |-> "none", error |-> <<"unset">>]

\* Mutation: every API result is turned down.
ApiAcceptedNever(r) == FALSE

\* extractData, line 286
ApiAccepted(r) == r.success /\ TruthyText(r.content)

\* extractData, line 302
PlaywrightAccepted(r) == r.success /\ TruthyText(r.content)

\* Mutation: the fallback result is tagged as an API result.
PlaywrightMethodAsApi == "api"

\* extractData, line 307: the method tag of a browser result
PlaywrightMethod == "playwright"

\* extractData, lines 289-292 and 304-307
ExtractSuccess(r, method) ==
  [success |-> TRUE, content |-> r.content, method |-> method, error |-> r.error]

\* extractData, lines 314-317
BothFailed(a, p) ==
  [success |-> FALSE, content |-> <<>>, method |-> "none",
   error |-> <<"API:">> \o a.error \o <<"; Playwright:">> \o p.error]

\* Mutation: a failed browser extraction is run again.
PlaywrightRetried == "browser"

\* extractData, lines 310-317: a failed browser extraction ends extractData.
AfterPlaywrightFailure == "done"

\* extractData, lines 271-293: up to the decision on the API result.
ExtractViaApi ==
  /\ xpc = "start"
  /\ IF ~pageId
       THEN /\ xpc' = "done"
            /\ extractResult' = [NoExtract EXCEPT !.error = <<"no page_id">>]
            /\ UNCHANGED <<apiBlocks, apiResult, agentCalls>>
       ELSE \E kind \in {"throw", "blocks"}, blocks \in SeqsUpTo(BlockTexts, MaxBlocks) :
              LET o == ApiOutcome(kind, blocks)
                  r == extractViaAPI(notionToken, o) IN
              /\ apiResult' = r
              /\ apiBlocks' = IF notionToken THEN o.blocks ELSE <<>>
              /\ agentCalls' = Append(agentCalls, "api")
              /\ IF ApiAccepted(r)
                   THEN xpc' = "done" /\ extractResult' = ExtractSuccess(r, "api")
                   ELSE xpc' = "browser" /\ UNCHANGED extractResult
  /\ UNCHANGED <<pageId, notionToken, playwrightResult, xAuth, xNavigated, xAuthFile,
                 coordVars, retryVars, scrollVars, analysisVars, writerVars, fleetVars, walkVars>>

\* extractData, lines 295-317: the fallback call and the final result.
ExtractViaPlaywright ==
  /\ xpc = "browser"
  /\ agentCalls' = Append(agentCalls, "browser")
  /\ \E o \in PlaywrightOutcomes :
       IF o.kind = "launchThrow"
         THEN /\ xpc' = "threw"
              /\ xAuth' = "none"
              /\ xNavigated' = FALSE
              /\ xAuthFile' = FALSE
              /\ UNCHANGED <<playwrightResult, extractResult>>
         ELSE LET r == extractViaPlaywright(notionToken, o) IN
              /\ playwrightResult' = r
              /\ xAuth' = PlaywrightAuth(notionToken, o)
              /\ xNavigated' = PlaywrightNavigates(notionToken, o)
              /\ xAuthFile' = o.authFile
              /\ IF PlaywrightAccepted(r)
                   THEN /\ xpc' = "done"
                        /\ extractResult' = ExtractSuccess(r, PlaywrightMethod)
                   ELSE /\ xpc' = AfterPlaywrightFailure
                        /\ extractResult' = IF AfterPlaywrightFailure = "done"
                                              THEN BothFailed(apiResult, r)
                                              ELSE extractResult
  /\ UNCHANGED <<pageId, notionToken, apiBlocks, apiResult, coordVars, retryVars,
                 scrollVars, analysisVars, writerVars, fleetVars, walkVars>>

\* ------------------------------------- getAllBlocksRecursive (index.js)
\* The blocks of the page are numbered 1..Len(wParent); wParent[b] < b is
\* the parent of block b, and the children of a block stand in the order of
\* their numbers.
TreeBlocks == 1..Len(wParent)

RECURSIVE KidsFrom(_, _)
KidsFrom(p, b) ==
  IF b > Len(wParent) THEN <<>>
  ELSE (IF wParent[b] = p THEN <<b>> ELSE <<>>) \o KidsFrom(p, b + 1)

\* The children of block p (of the page when p = 0), in their order.
Kids(p) == KidsFrom(p, 1)

\* block.has_children
HasChildren(b) == Kids(b) # <<>>

\* The pages the API splits the list q into: a page ends with a block of
\* wCuts when more blocks follow, and with the last block of the list.
RECURSIVE Split(_, _)
Split(q, page) ==
  IF q = <<>> THEN <<page>>
  ELSE IF Head(q) \in wCuts /\ Tail(q) # <<>>
    THEN <<Append(page, Head(q))>> \o Split(Tail(q), <<>>)
  ELSE Split(Tail(q), Append(page, Head(q)))

\* The responses of blocks.children.list for block p, in order.
ChildPages(p) == Split(Kids(p), <<>>)

\* Mutation: only the first page of a children list is read.
HasMoreIgnored(p, k) == FALSE

\* response.has_more of the k-th page of the children of p (next_cursor is
\* set exactly then): lines 54 and 72.
HasMore(p, k) == k < Len(ChildPages(p))

\* Mutation: a failing list call ends the whole walk with an exception.
ListFailureRethrown == TRUE

\* getAllBlocksRecursive, lines 73-76: the catch block returns allBlocks, so
\* the exception of a list call does not leave the call it was made in.
ListFailureEscapes == FALSE

\* getAllBlocksRecursive from the k-th list call for block p on: the call
\* (lines 36-39 for the first page, 59-63 for the others), the loop over
\* its results (lines 41-48, 65-70) and the next page while has_more (lines
\* 54-73).  st holds allBlocks, the list calls made so far and whether an
\* exception is on its way out.
RECURSIVE WalkFrom(_, _, _), VisitBlocks(_, _)
WalkFrom(p, k, st) ==
  LET ok == Len(st.calls) + 1 # wFail
      call == [block |-> p, page |-> k, ok |-> ok, more |-> ok /\ HasMore(p, k)]
      called == [st EXCEPT !.calls = Append(@, call)]
  IN IF ~ok THEN [called EXCEPT !.threw = ListFailureEscapes]
     ELSE LET visited == VisitBlocks(ChildPages(p)[k], called) IN
          IF visited.threw \/ ~call.more THEN visited
          ELSE WalkFrom(p, k + 1, visited)

\* The loop over the results of one response: push the block, then walk its
\* children when it has any (lines 41-48).
VisitBlocks(bs, st) ==
  IF bs = <<>> \/ st.threw THEN st
  ELSE LET pushed == [st EXCEPT !.blocks = Append(@, Head(bs))]
       IN VisitBlocks(Tail(bs),
                      IF HasChildren(Head(bs)) THEN WalkFrom(Head(bs), 1, pushed)
                      ELSE pushed)

\* getAllBlocksRecursive(notion, blockId), lines 34-77
getAllBlocksRecursive(blockId) ==
  WalkFrom(blockId, 1, [blocks |-> <<>>, calls |-> <<>>, threw |-> FALSE])

\* What extractTextFromBlock gives for block b: a text that ends with the
\* number of the block, half the threshold long, or a short one that
\* starts with a marker.
BlockText(b) ==
  IF b = wMarked THEN <<"S", "u", "m", "m", "a", "r", "y", " ", ToString(b)>>
  ELSE Rep("x", ApiMinLength \div 2 - 1) \o <<ToString(b)>>

\* The texts of the blocks bs, in their order (extractViaAPI, lines 213-214).
TextsOf(bs) == [i \in 1..Len(bs) |-> BlockText(bs[i])]

\* extractData, lines 271-293, with the block walk of extractViaAPI (line
\* 199) carried out on the tree of the page.
ExtractViaApiWalk ==
  /\ xpc = "walk"
  /\ \E w \in {getAllBlocksRecursive(0)} :
     \E o \in {ApiOutcome(IF w.threw THEN "throw" ELSE "blocks", TextsOf(w.blocks))} :
     \E r \in {extractViaAPI(notionToken, o)} :
     /\ walked' = w.blocks
     /\ listCalls' = w.calls
     /\ apiResult' = r
     /\ apiBlocks' = o.blocks
     /\ agentCalls' = Append(agentCalls, "api")
     /\ IF ApiAccepted(r)
          THEN xpc' = "done" /\ extractResult' = ExtractSuccess(r, "api")
          ELSE xpc' = "browser" /\ UNCHANGED extractResult
  /\ UNCHANGED <<pageId, notionToken, playwrightResult, xAuth, xNavigated, xAuthFile,
                 wParent, wCuts, wFail, wMarked,
                 coordVars, retryVars, scrollVars, analysisVars, writerVars, fleetVars>>

\* No block walk is modelled.
WalkIdle ==
  /\ wParent = <<>>
  /\ wCuts = {}
  /\ wFail = 0
  /\ wMarked = 0
  /\ walked = <<>>
  /\ listCalls = <<>>

\* extractData is not running.
ExtractIdle ==
  /\ xpc = "idle"
  /\ pageId = FALSE
  /\ notionToken = FALSE
  /\ apiBlocks = <<>>
  /\ apiResult = NoResult
  /\ playwrightResult = NoResult
  /\ extractResult = NoExtract
  /\ agentCalls = <<>>
  /\ xAuth = "none"
  /\ xNavigated = FALSE
  /\ xAuthFile = FALSE

\* ================================================ smartScroll (scraper.ts)
\* Values of document.documentElement.scrollHeight: the scroll height of
\* the root element is never below the height of the viewport (1080 px),
\* so none is 0.
Heights == 1..MaxHeight

\* Mutation: the loop runs once more.
ScrollLoopInclusive(c, n) == c <= n

\* smartScroll, line 28: the loop condition
ScrollLoopContinues(c, n) == c < n

\* Mutation: the loop stops only when the page got shorter.
HeightShrunk(h, p) == h < p

\* smartScroll, line 33
HeightStable(h, p) == h = p

\* smartScroll, line 28: where the loop condition leads.
ScrollLoop(c, n) == IF ScrollLoopContinues(c, n) THEN "read" ELSE "done"

\* smartScroll, lines 29-37: one read of the height.
ReadHeight ==
  /\ spc = "read"
  /\ \E threw \in BOOLEAN, h \in Heights :
       IF threw
         THEN spc' = "threw" /\ UNCHANGED <<heights, previousHeight>>
         ELSE /\ heights' = Append(heights, h)
              /\ IF HeightStable(h, previousHeight)
                   THEN spc' = "done" /\ UNCHANGED previousHeight
                   ELSE spc' = "scroll" /\ previousHeight' = h
  /\ UNCHANGED <<maxScrolls, scrollCount, scrolls, waits, coordVars, retryVars, extractVars,
                 analysisVars, writerVars, fleetVars, walkVars>>

\* smartScroll, lines 39-41
ScrollBy ==
  /\ spc = "scroll"
  /\ scrolls' = scrolls + 1
  /\ \E threw \in BOOLEAN : spc' = IF threw THEN "threw" ELSE "wait"
  /\ UNCHANGED <<maxScrolls, scrollCount, previousHeight, heights, waits, coordVars,
                 retryVars, extractVars, analysisVars, writerVars, fleetVars, walkVars>>

\* smartScroll, lines 43-44, and the loop condition of line 28
WaitAfterScroll ==
  /\ spc = "wait"
  /\ waits' = waits + 1
  /\ \E threw \in BOOLEAN :
       IF threw
         THEN spc' = "threw" /\ UNCHANGED scrollCount
         ELSE /\ scrollCount' = scrollCount + 1
              /\ spc' = ScrollLoop(scrollCount + 1, maxScrolls)
  /\ UNCHANGED <<maxScrolls, previousHeight, heights, scrolls, coordVars, retryVars,
                 extractVars, analysisVars, writerVars, fleetVars, walkVars>>

\* smartScroll is not running.
ScrollIdle ==
  /\ spc = "idle"
  /\ maxScrolls = 0
  /\ scrollCount = 0
  /\ previousHeight = 0
  /\ heights = <<>>
  /\ scrolls = 0
  /\ waits = 0

\* ============================================================ analyst.ts
\* A value of the model's JSON is absent (undefined or null: NullText) or a
\* text.  An element of a JSON array is null or an object; a number or a
\* string has no property either and normalises like the empty object.
NoFields ==
  [title |-> NullText, description |-> NullText, assignee |-> NullText,
   dueDate |-> NullText, priority |-> NullText, context |-> NullText]

ElementNull == [kind |-> "null", fields |-> NoFields]
ElementEmpty == [kind |-> "object", fields |-> NoFields]
ElementBlankTitle == [kind |-> "object", fields |-> [NoFields EXCEPT !.title = <<>>]]
ElementTitled == [kind |-> "object", fields |-> [NoFields EXCEPT !.title = <<"t">>]]
ElementFull ==
  [kind |-> "object",
   fields |-> [title |-> <<"t">>, description |-> <<"d">>, assignee |-> <<"a">>,
               dueDate |-> <<"2024-01-25">>, priority |-> <<"High">>,
               context |-> <<"c">>]]

JsonElements == {ElementNull, ElementEmpty, ElementBlankTitle, ElementTitled, ElementFull}

\* A property of the JSON value that should hold an array: missing, null,
\* of another type (a string), or an array.
JsonArray(elems) == [kind |-> "array", elems |-> elems]
JsonNotArray(k) == [kind |-> k, elems |-> <<>>]
JsonFields ==
  {JsonNotArray(k) : k \in {"missing", "null", "string"}}
  \cup {JsonArray(e) : e \in SeqsUpTo(JsonElements, MaxElems)}

SummaryValues == {NullText, <<>>, <<"a">>}

\* What JSON.parse returns: null, an object, or a value of another type
\* (number, string, boolean, array), which has none of the properties.
JsonNull ==
  [type |-> "null", actionItems |-> JsonNotArray("missing"),
   keyDecisions |-> JsonNotArray("missing"), summary |-> NullText]
JsonOther == [JsonNull EXCEPT !.type = "other"]
JsonObject(a, k, s) ==
  [type |-> "object", actionItems |-> a, keyDecisions |-> k, summary |-> s]

\* The value of the given type; only an object has the three properties.
JsonValue(type, a, k, s) ==
  CASE type = "null" -> JsonNull
    [] type = "other" -> JsonOther
    [] OTHER -> JsonObject(a, k, s)

JsonTypes == {"null", "other", "object"}

\* Outcomes of the chat completion: the call throws, the message has no
\* content, the content is not JSON, or it is the text of a JSON value.
ModelOutcome(kind, json) == [kind |-> kind, json |-> json]
OutcomeKinds == {"throw", "nocontent", "badjson", "json"}

RECURSIVE Items(_)
Items(n) == IF n = 0 THEN <<>> ELSE Append(Items(n - 1), ElementTitled)

\* The outcomes the coordinator is run with: the failures, and objects whose
\* actionItems is not an array or holds up to MaxItems titled items.
AnalystOutcomes ==
  {ModelOutcome(k, JsonNull) : k \in {"throw", "nocontent", "badjson"}}
  \cup {ModelOutcome("json", JsonObject(a, JsonArray(<<>>), s)) :
          a \in {JsonNotArray("string")} \cup {JsonArray(Items(n)) : n \in 0..MaxItems},
          s \in SummaryValues}

NoData == [actionItems |-> JsonArray(<<>>), keyDecisions |-> JsonArray(<<>>),
           summary |-> NullText]
NoAnalysis == [success |-> FALSE, hasData |-> FALSE, data |-> NoData, error |-> "unset"]

\* Mutation: a missing title is left missing.
DefaultTitleMissing == NullText

\* analyst.ts lines 98 and 107: the '' of item.title || ''
DefaultTitle == <<>>

\* analyst.ts lines 97-103: one action item
NormalizeItem(e) ==
  [title |-> IF TruthyText(e.fields.title) THEN e.fields.title ELSE DefaultTitle,
   description |-> e.fields.description,
   assignee |-> e.fields.assignee,
   dueDate |-> e.fields.dueDate,
   priority |-> e.fields.priority]

\* Mutation: description and context of a decision change places.
NormalizeDecisionSwapped(e) ==
  [title |-> IF TruthyText(e.fields.title) THEN e.fields.title ELSE DefaultTitle,
   description |-> e.fields.context,
   context |-> e.fields.description]

\* analyst.ts lines 106-110: one decision
NormalizeDecision(e) ==
  [title |-> IF TruthyText(e.fields.title) THEN e.fields.title ELSE DefaultTitle,
   description |-> e.fields.description,
   context |-> e.fields.context]

RECURSIVE MapItems(_)
MapItems(es) ==
  IF es = <<>> THEN <<>> ELSE <<NormalizeItem(Head(es))>> \o MapItems(Tail(es))

RECURSIVE MapDecisions(_)
MapDecisions(es) ==
  IF es = <<>> THEN <<>> ELSE <<NormalizeDecision(Head(es))>> \o MapDecisions(Tail(es))

\* Mutation: a property that is not an array is passed on as it is.
NotArrayKept(f) == f

\* analyst.ts lines 96-104 and 105-111: the : [] branch of Array.isArray
NotArrayReplaced(f) == JsonArray(<<>>)

\* analyst.ts lines 95-113
Normalize(v) ==
  [actionItems |-> IF v.actionItems.kind = "array"
                     THEN JsonArray(MapItems(v.actionItems.elems))
                     ELSE NotArrayReplaced(v.actionItems),
   keyDecisions |-> IF v.keyDecisions.kind = "array"
                      THEN JsonArray(MapDecisions(v.keyDecisions.elems))
                      ELSE NotArrayReplaced(v.keyDecisions),
   summary |-> v.summary]

\* The property access on null throws a TypeError: jsonData.actionItems on
\* a null value, item.title on a null element.
NormalizeThrows(v) ==
  \/ v.type = "null"
  \/ \E i \in 1..Len(v.actionItems.elems) : v.actionItems.elems[i].kind = "null"
  \/ \E i \in 1..Len(v.keyDecisions.elems) : v.keyDecisions.elems[i].kind = "null"

\* Mutation: the outer catch rethrows.
AnalysisRethrown(o) == o.kind = "throw"

\* analyst.ts lines 132-139: the outer catch returns a failure (FALSE: no
\* exception leaves analyzeMeetingContent).
AnalysisEscapes(o) == FALSE

\* analyst.ts lines 124-131: the inner catch
ParseFailure ==
  [success |-> FALSE, hasData |-> FALSE, data |-> NoData, error |-> "invalid JSON"]

analyzeMeetingContent(o) ==
  CASE o.kind = "throw" ->
         [success |-> FALSE, hasData |-> FALSE, data |-> NoData, error |-> "analysis exception"]
    [] o.kind = "nocontent" ->
         [success |-> FALSE, hasData |-> FALSE, data |-> NoData, error |-> "no content"]
    [] o.kind = "badjson" -> ParseFailure
    [] OTHER ->
         IF NormalizeThrows(o.json) THEN ParseFailure
         ELSE [success |-> TRUE, hasData |-> TRUE, data |-> Normalize(o.json),
               error |-> "none"]

\* analyzeMeetingContent called on its own.
AnalyzeCall ==
  /\ apc = "call"
  /\ \E kind \in OutcomeKinds, type \in JsonTypes, a \in JsonFields, k \in JsonFields,
        s \in SummaryValues :
       LET o == ModelOutcome(kind, IF kind = "json" THEN JsonValue(type, a, k, s)
                                   ELSE JsonNull) IN
       /\ modelOutcome' = o
       /\ IF AnalysisEscapes(o)
            THEN apc' = "threw" /\ UNCHANGED analystResult
            ELSE apc' = "done" /\ analystResult' = analyzeMeetingContent(o)
  /\ UNCHANGED <<pc, cfgError, envSet, exitCode, pollInterval, status, found, pages,
                 queryThrew, delay,
                 cur, step, scraperResult, writerResult, written, statusAttempts,
                 stageCalls, callDocs, created, appended, retryVars, extractVars,
                 scrollVars, writerVars, fleetVars, walkVars>>

\* analyzeMeetingContent is not being called on its own.
AnalystIdle ==
  /\ apc = "idle"
  /\ modelOutcome = ModelOutcome("nocontent", JsonNull)

\* ============================================================= writer.ts
\* Mutation: the loop is left at the first creation that throws.
CreateFailureBreaks == "break"

\* createTasks, lines 90-94: the catch inside the loop logs the failure and
\* the loop goes on with the next item.
AfterCreateFailure == "next"

\* createTasks, lines 19-95: the for loop from item i on.  createOk[i] tells
\* whether notion.pages.create returns for the i-th item; the id of the
\* record created for the i-th item is i.
RECURSIVE CreateLoop(_, _, _, _, _)
CreateLoop(i, n, createOk, ids, log) ==
  IF i > n THEN [taskIds |-> ids, attempts |-> log]
  ELSE LET tried == Append(log, [item |-> i, ok |-> createOk[i]]) IN
       IF createOk[i] THEN CreateLoop(i + 1, n, createOk, Append(ids, i), tried)
       ELSE IF AfterCreateFailure = "next"
         THEN CreateLoop(i + 1, n, createOk, ids, tried)
         ELSE [taskIds |-> ids, attempts |-> tried]

\* createTasks: the ids it returns and the creations it attempted, in order.
createTasks(n, createOk) == CreateLoop(1, n, createOk, <<>>, <<>>)

\* A block appended to the meeting page: the list item telling how many
\* tasks were created (lines 135-148) or the callout (lines 160-176).
CountBlock(n) == [type |-> "count", count |-> n, text |-> <<>>]
SummaryBlock(text) == [type |-> "callout", count |-> 0, text |-> text]

\* Mutation: the count is appended whatever the number of tasks.
WantCountAlways(taskIds) == TRUE

\* updateMeetingPage, line 117
WantCount(taskIds) == Len(taskIds) > 0

\* Mutation: the callout is appended for every summary that is not null.
WantSummaryDefined(summary) == summary # NullText

\* updateMeetingPage, line 156
WantSummary(summary) == TruthyText(summary)

\* Mutation: the catch of updateMeetingPage swallows the failure.
UpdateFailureSwallowed == FALSE

\* updateMeetingPage, line 185: the catch rethrows.
UpdateFailureRethrown == TRUE

\* updateMeetingPage: the blocks it appends and whether it throws.  A throw
\* of the first append leaves the try block, so the second is not made.
updateMeetingPage(taskIds, summary, countOk, summaryOk) ==
  LET wantCount == WantCount(taskIds)
      wantSummary == WantSummary(summary)
      countDone == wantCount /\ countOk
      countThrew == wantCount /\ ~countOk
      summaryDone == ~countThrew /\ wantSummary /\ summaryOk
      summaryThrew == ~countThrew /\ wantSummary /\ ~summaryOk
  IN [blocks |-> (IF countDone THEN <<CountBlock(Len(taskIds))>> ELSE <<>>)
                 \o (IF summaryDone THEN <<SummaryBlock(summary)>> ELSE <<>>),
      failed |-> countThrew \/ summaryThrew,
      threw |-> (countThrew \/ summaryThrew) /\ UpdateFailureRethrown]

NoWrite == [success |-> FALSE, taskIds |-> <<>>, error |-> "unset"]

\* Mutation: only a single item counts as items asked for.
SingleItemAsked(n) == n = 1

\* writeToNotion, line 204: data.actionItems.length > 0
SomeItemAsked(n) == n > 0

\* Mutation: the write-back goes on without any task.
NoTaskCreatedIgnored(taskIds, n) == FALSE

\* writeToNotion, line 204
NoTaskCreated(taskIds, n) == Len(taskIds) = 0 /\ SomeItemAsked(n)

\* Mutation: the result of a write-back without any task tells success.
NoTaskSuccess == [success |-> TRUE, taskIds |-> <<>>, error |-> "none"]

\* writeToNotion, lines 205-208
NoTaskFailure == [success |-> FALSE, taskIds |-> <<>>, error |-> "no task created"]

\* Mutation: the catch of writeToNotion rethrows.
WriteExceptionRethrown == TRUE

\* writeToNotion, lines 220-227: the catch returns a failure (FALSE: no
\* exception leaves writeToNotion).
WriteExceptionEscapes == FALSE

\* writeToNotion: result, records created, blocks appended, creations
\* attempted, whether updateMeetingPage failed and whether the call throws.
writeToNotion(data, createOk, countOk, summaryOk) ==
  LET n == Len(data.actionItems.elems)
      tasks == createTasks(n, createOk)
      taskIds == tasks.taskIds
      upd == updateMeetingPage(taskIds, data.summary, countOk, summaryOk)
  IN IF NoTaskCreated(taskIds, n)
       THEN [result |-> NoTaskFailure, created |-> Len(taskIds), blocks |-> <<>>,
             attempts |-> tasks.attempts, updateFailed |-> FALSE, threw |-> FALSE]
       ELSE IF upd.threw
         THEN [result |-> [success |-> FALSE, taskIds |-> <<>>, error |-> "write exception"],
               created |-> Len(taskIds), blocks |-> upd.blocks,
               attempts |-> tasks.attempts, updateFailed |-> TRUE,
               threw |-> WriteExceptionEscapes]
         ELSE [result |-> [success |-> TRUE, taskIds |-> taskIds, error |-> "none"],
               created |-> Len(taskIds), blocks |-> upd.blocks,
               attempts |-> tasks.attempts, updateFailed |-> upd.failed,
               threw |-> FALSE]

\* The data writeToNotion is called with on its own: up to MaxTasks action
\* items, no decision or one, and every kind of summary.
WriterInputs ==
  {Normalize(JsonObject(JsonArray(Items(n)), JsonArray(k), s)) :
     n \in 0..MaxTasks, k \in {<<>>, <<ElementTitled>>}, s \in SummaryTexts}

\* writeToNotion called on its own, lines 192-228.
WriteCall ==
  /\ wpc = "call"
  /\ \E createOk \in [1..MaxTasks -> BOOLEAN], countOk \in BOOLEAN, summaryOk \in BOOLEAN :
       LET w == writeToNotion(wData, createOk, countOk, summaryOk) IN
       /\ created' = w.created
       /\ appended' = w.blocks
       /\ createLog' = w.attempts
       /\ updateThrew' = w.updateFailed
       /\ IF w.threw
            THEN wpc' = "threw" /\ UNCHANGED writerResult
            ELSE wpc' = "done" /\ writerResult' = w.result
  /\ UNCHANGED <<pc, cfgError, envSet, exitCode, pollInterval, status, found, pages,
                 queryThrew, delay,
                 cur, step, scraperResult, analystResult, written, statusAttempts,
                 stageCalls, callDocs, wData, retryVars, extractVars, scrollVars,
                 analysisVars, fleetVars, walkVars>>

\* writeToNotion is not being called on its own.
WriterIdle ==
  /\ wpc = "idle"
  /\ wData = NoData
  /\ createLog = <<>>
  /\ updateThrew = FALSE

\* ========================================================= coordinator.ts
\* loadConfig, lines 38-49: the first required variable that is missing.
FirstMissing(env) ==
  IF \A i \in 1..Len(RequiredEnv) : env[i] THEN 0
  ELSE CHOOSE i \in 1..Len(RequiredEnv) :
         ~env[i] /\ \A j \in 1..(i - 1) : env[j]

\* Mutation: the failure of loadConfig is ignored and the poll loop entered.
ConfigErrorIgnored == "query"

\* main.ts lines 11-15: the error loadConfig throws leaves runCoordinator
\* (line 222 is outside the try of the poll loop) and main's catch exits.
AfterConfigError == "exited"

\* runCoordinator, line 222, and main, lines 9-15
LoadConfig ==
  /\ UNCHANGED toolVars
  /\ pc = "loadConfig"
  /\ IF FirstMissing(envSet) # 0
       THEN /\ pc' = AfterConfigError
            /\ cfgError' = RequiredEnv[FirstMissing(envSet)]
            /\ exitCode' = FatalExitCode
            /\ UNCHANGED pollInterval
       ELSE /\ pc' = "query"
            /\ \E p \in PollIntervals : pollInterval' = p
            /\ UNCHANGED <<cfgError, exitCode>>
  /\ UNCHANGED <<envSet, status, found, pages, queryThrew, delay, cur, step,
                 scraperResult, analystResult, writerResult, written, statusAttempts,
                 stageCalls, callDocs, created, appended, retryVars>>

\* All orderings of a set of pages.
RECURSIVE Orderings(_)
Orderings(S) ==
  IF S = {} THEN {<<>>}
  ELSE UNION {{<<d>> \o o : o \in Orderings(S \ {d})} : d \in S}

\* Mutation: the query also returns the pages left in Processing.
UnfinishedDocs == {d \in Docs : status[d] \in {"Ready to Process", "Processing"}}

\* findPagesToProcess, lines 71-79: the filter of the query
ReadyDocs == {d \in Docs : status[d] = "Ready to Process"}

\* Mutation: findPagesToProcess rethrows the query failure.
QueryFailureRethrown == TRUE

\* findPagesToProcess, lines 104-108: the catch returns [] (FALSE: the
\* exception does not reach runCoordinator).
QueryFailureEscapes == FALSE

\* findPagesToProcess, lines 81-103: results without 'properties' are skipped.
PagesOf(results, partial) == SelectSeq(results, LAMBDA d : d \notin partial)

\* runCoordinator, lines 249-253
PollLoopCatch ==
  /\ pc' = "wait"
  /\ delay' = FallbackDelay
  /\ pages' = <<>>

FindPages ==
  /\ UNCHANGED toolVars
  /\ pc = "query"
  /\ \E threw \in BOOLEAN, results \in Orderings(ReadyDocs), partial \in SUBSET ReadyDocs :
       LET ps == IF threw THEN <<>> ELSE PagesOf(results, partial) IN
       /\ queryThrew' = threw
       /\ found' = ps
       /\ IF threw /\ QueryFailureEscapes
            THEN PollLoopCatch
            ELSE pc' = "forPages" /\ pages' = ps /\ UNCHANGED delay
  /\ callDocs' = <<>>
  /\ cur' = NoDoc
  /\ step' = "idle"
  /\ scraperResult' = NoResult
  /\ analystResult' = NoAnalysis
  /\ writerResult' = NoWrite
  /\ statusAttempts' = <<>>
  /\ stageCalls' = <<>>
  /\ created' = 0
  /\ appended' = <<>>
  /\ UNCHANGED <<cfgError, envSet, exitCode, pollInterval, status, written, retryVars>>

\* Mutation: the loop takes the pages back to front.
LastIndex(ps) == Len(ps)

\* runCoordinator, line 242: the for-of loop takes the pages front to back.
NextIndex(ps) == 1

RemoveAt(ps, i) == SubSeq(ps, 1, i - 1) \o SubSeq(ps, i + 1, Len(ps))

\* runCoordinator, lines 236-248.  The locals of the processPage call that
\* has returned are dropped when the loop goes on.
ForPages ==
  /\ UNCHANGED toolVars
  /\ pc = "forPages"
  /\ IF pages = <<>>
       THEN /\ pc' = "wait"
            /\ delay' = pollInterval
            /\ cur' = NoDoc
            /\ step' = "idle"
            /\ scraperResult' = NoResult
            /\ analystResult' = NoAnalysis
            /\ writerResult' = NoWrite
            /\ statusAttempts' = <<>>
            /\ stageCalls' = <<>>
            /\ created' = 0
            /\ appended' = <<>>
            /\ UNCHANGED pages
       ELSE /\ pc' = "inPage"
            /\ cur' = pages[NextIndex(pages)]
            /\ pages' = RemoveAt(pages, NextIndex(pages))
            /\ step' = "setProcessing"
            /\ scraperResult' = NoResult
            /\ analystResult' = NoAnalysis
            /\ writerResult' = NoWrite
            /\ statusAttempts' = <<>>
            /\ stageCalls' = <<>>
            /\ created' = 0
            /\ appended' = <<>>
            /\ UNCHANGED delay
  /\ UNCHANGED <<cfgError, envSet, exitCode, pollInterval, status, found, queryThrew, written, callDocs,
                 retryVars>>

\* Mutation: the poll loop ends after one cycle.
AfterWaitStops == "exited"

\* runCoordinator, line 231: while (true) leads back to the discovery query.
AfterWait == "query"

\* The timer of line 248 or 253 fires.
Wait ==
  /\ UNCHANGED toolVars
  /\ pc = "wait"
  /\ pc' = AfterWait
  /\ UNCHANGED <<cfgError, envSet, exitCode, pollInterval, status, found, pages, queryThrew, delay, cur, step,
                 scraperResult, analystResult, writerResult, written, statusAttempts,
                 stageCalls, callDocs, created, appended, retryVars>>

\* Mutation: updatePageStatus logs the failure and returns.
StatusWriteSwallowed(ok) == FALSE

\* updatePageStatus, lines 132-136: the catch rethrows.
StatusWriteThrows(ok) == ~ok

\* updatePageStatus(pageId = d, status = s); ok: notion.pages.update returned.
updatePageStatus(d, s, ok) ==
  /\ status' = IF ok THEN [status EXCEPT ![d] = s] ELSE status
  /\ written' = IF ok THEN [written EXCEPT ![d] = Append(@, s)] ELSE written
  /\ statusAttempts' = Append(statusAttempts, <<s, ok>>)
  /\ callDocs' = Touched(d)

\* processPage, lines 203-209: where an exception in the try block leads.
CatchTarget == "setError"

\* Mutation: the failure of the Error write leaves processPage.
ErrorWriteFailureRethrown == TRUE

\* processPage, lines 210-212: the inner catch swallows the failure of the
\* Error write (FALSE: it does not reach runCoordinator).
ErrorWriteFailureEscapes == FALSE

\* processPage returns (threw = FALSE) or throws into the poll loop.
ProcessPageEnds(threw) ==
  IF threw
    THEN step' = "threw" /\ PollLoopCatch
    ELSE step' = "returned" /\ pc' = "forPages" /\ UNCHANGED <<pages, delay>>

\* Mutation: the scraper result is not checked.
ScraperOkIgnored(r) == TRUE

\* processPage, line 162
ScraperOk(r) == r.success /\ TruthyText(r.content)

\* processPage, line 175
AnalystOk(r) == r.success /\ r.hasData

\* Mutation: the writer result is not checked.
WriterOkIgnored(r) == TRUE

\* processPage, line 193
WriterOk(r) == r.success

\* processPage, line 156
SetProcessing ==
  /\ UNCHANGED toolVars
  /\ pc = "inPage" /\ step = "setProcessing"
  /\ \E ok \in BOOLEAN :
       /\ updatePageStatus(cur, "Processing", ok)
       /\ IF ~StatusWriteThrows(ok)
            THEN /\ step' = "scrape"
                 /\ stageCalls' = Append(stageCalls, "scraper")
                 /\ EnterRetry(CoordinatorMaxRetries)
            ELSE /\ step' = CatchTarget
                 /\ UNCHANGED <<stageCalls, retryVars>>
  /\ UNCHANGED <<pc, cfgError, envSet, exitCode, pollInterval, found, pages, queryThrew, delay, cur,
                 scraperResult, analystResult, writerResult, created, appended>>

\* processPage, lines 160-164: scrapeWithRetry has returned or thrown.
ScrapeReturn ==
  /\ UNCHANGED toolVars
  /\ pc = "inPage" /\ step = "scrape" /\ rpc \in {"done", "threw"}
  /\ IF rpc = "threw"
       THEN step' = CatchTarget /\ UNCHANGED scraperResult
       ELSE /\ scraperResult' = retryResult
            /\ step' = IF ScraperOk(retryResult) THEN "analyze" ELSE CatchTarget
  /\ rpc' = "idle"
  /\ maxRetries' = 0
  /\ attempt' = 0
  /\ retryResult' = NoResult
  /\ attemptLog' = <<>>
  /\ sleeps' = <<>>
  /\ sessionLoaded' = FALSE
  /\ navigated' = FALSE
  /\ peakOpen' = browsersOpen
  /\ UNCHANGED browsersOpen
  /\ UNCHANGED <<pc, cfgError, envSet, exitCode, pollInterval, status, found, pages, queryThrew, delay, cur,
                 analystResult, writerResult, written, statusAttempts, stageCalls,
                 callDocs, created, appended>>

\* processPage, lines 170-177
Analyze ==
  /\ UNCHANGED toolVars
  /\ pc = "inPage" /\ step = "analyze"
  /\ \E o \in AnalystOutcomes :
       IF AnalysisEscapes(o)
         THEN step' = CatchTarget /\ UNCHANGED analystResult
         ELSE /\ analystResult' = analyzeMeetingContent(o)
              /\ step' = IF AnalystOk(analyzeMeetingContent(o)) THEN "write" ELSE CatchTarget
  /\ stageCalls' = Append(stageCalls, "analyst")
  /\ callDocs' = Touched(cur)
  /\ UNCHANGED <<pc, cfgError, envSet, exitCode, pollInterval, status, found, pages, queryThrew, delay, cur,
                 scraperResult, writerResult, written, statusAttempts,
                 created, appended, retryVars>>

\* processPage, lines 186-195
Write ==
  /\ UNCHANGED toolVars
  /\ pc = "inPage" /\ step = "write"
  /\ \E createOk \in [1..MaxItems -> BOOLEAN], countOk \in BOOLEAN, summaryOk \in BOOLEAN :
       LET w == writeToNotion(analystResult.data, createOk, countOk, summaryOk) IN
       /\ created' = w.created
       /\ appended' = w.blocks
       /\ IF w.threw
            THEN step' = CatchTarget /\ UNCHANGED writerResult
            ELSE /\ writerResult' = w.result
                 /\ step' = IF WriterOk(w.result) THEN "setDone" ELSE CatchTarget
  /\ stageCalls' = Append(stageCalls, "writer")
  /\ callDocs' = Touched(cur)
  /\ UNCHANGED <<pc, cfgError, envSet, exitCode, pollInterval, status, found, pages, queryThrew, delay, cur,
                 scraperResult, analystResult, written, statusAttempts, retryVars>>

\* processPage, line 200
SetDone ==
  /\ UNCHANGED toolVars
  /\ pc = "inPage" /\ step = "setDone"
  /\ \E ok \in BOOLEAN :
       /\ updatePageStatus(cur, "Done", ok)
       /\ IF ~StatusWriteThrows(ok)
            THEN ProcessPageEnds(FALSE)
            ELSE step' = CatchTarget /\ UNCHANGED <<pc, pages, delay>>
  /\ UNCHANGED <<cfgError, envSet, exitCode, pollInterval, found, queryThrew, cur, scraperResult,
                 analystResult, writerResult, stageCalls, created, appended, retryVars>>

\* processPage, lines 208-212
SetError ==
  /\ UNCHANGED toolVars
  /\ pc = "inPage" /\ step = "setError"
  /\ \E ok \in BOOLEAN :
       /\ updatePageStatus(cur, "Error", ok)
       /\ ProcessPageEnds(StatusWriteThrows(ok) /\ ErrorWriteFailureEscapes)
  /\ UNCHANGED <<cfgError, envSet, exitCode, pollInterval, found, queryThrew, cur, scraperResult,
                 analystResult, writerResult, stageCalls, created, appended, retryVars>>

\* ------------------------------------------- several coordinator instances
\* Coordinator processes polling the same meetings database.  Each runs
\* runCoordinator with its own locals; the statuses of the pages and the
\* tasks database are shared.  The three agents of a processPage call are
\* one step here: whether they created task records and whether all of
\* them passed.
Instances == {1, 2}

\* Everything the instances neither read nor write.
fleetFrame ==
  <<pc, cfgError, envSet, exitCode, pollInterval, found, pages, queryThrew, delay, cur,
    step, scraperResult, analystResult, writerResult, statusAttempts, stageCalls,
    callDocs, created, appended, retryVars, extractVars, scrollVars, analysisVars,
    writerVars, walkVars>>

\* Mutation: the write is acknowledged but the status the query filters on
\* keeps its old value.
FleetStatusWriteLost(i, s, ok) ==
  /\ status' = status
  /\ written' = IF ok THEN [written EXCEPT ![icur[i]] = Append(@, s)] ELSE written

\* updatePageStatus, lines 114-137, called by instance i for its page.
FleetStatusWrite(i, s, ok) ==
  /\ status' = IF ok THEN [status EXCEPT ![icur[i]] = s] ELSE status
  /\ written' = IF ok THEN [written EXCEPT ![icur[i]] = Append(@, s)] ELSE written

\* runCoordinator, line 234, and findPagesToProcess, lines 65-109
FleetFindPages(i) ==
  /\ ipc[i] = "query"
  /\ \E threw \in BOOLEAN, results \in Orderings(ReadyDocs), partial \in SUBSET ReadyDocs :
       ipages' = [ipages EXCEPT ![i] = IF threw THEN <<>> ELSE PagesOf(results, partial)]
  /\ ipc' = [ipc EXCEPT ![i] = "forPages"]
  /\ icur' = [icur EXCEPT ![i] = NoDoc]
  /\ UNCHANGED <<status, written, runs, records, attemptsOf, fleetFrame>>

\* runCoordinator, lines 236-245: the next page of the for loop
FleetForPages(i) ==
  /\ ipc[i] = "forPages"
  /\ IF ipages[i] = <<>>
       THEN /\ ipc' = [ipc EXCEPT ![i] = "wait"]
            /\ icur' = [icur EXCEPT ![i] = NoDoc]
            /\ UNCHANGED ipages
       ELSE /\ ipc' = [ipc EXCEPT ![i] = "setProcessing"]
            /\ icur' = [icur EXCEPT ![i] = ipages[i][NextIndex(ipages[i])]]
            /\ ipages' = [ipages EXCEPT ![i] = RemoveAt(@, NextIndex(@))]
  /\ UNCHANGED <<status, written, runs, records, attemptsOf, fleetFrame>>

\* Mutation: a page that is no longer Ready to Process is skipped.
ClaimChecksReady(d) == status[d] = "Ready to Process"

\* processPage, lines 154-156, and updatePageStatus, lines 119-129: the
\* Processing write is made for every page of the query result, without a
\* read of its current status (TRUE: no page is skipped).
ClaimGranted(d) == TRUE

\* processPage, line 156
FleetSetProcessing(i) ==
  /\ ipc[i] = "setProcessing"
  /\ IF ClaimGranted(icur[i])
       THEN \E ok \in BOOLEAN :
              /\ FleetStatusWrite(i, "Processing", ok)
              /\ attemptsOf' = [attemptsOf EXCEPT ![icur[i]] = << <<"Processing", ok>> >>]
              /\ ipc' = [ipc EXCEPT ![i] = IF ~StatusWriteThrows(ok) THEN "agents"
                                           ELSE CatchTarget]
       ELSE /\ ipc' = [ipc EXCEPT ![i] = "forPages"]
            /\ UNCHANGED <<status, written, attemptsOf>>
  /\ UNCHANGED <<ipages, icur, runs, records, fleetFrame>>

\* processPage, lines 158-195: scrapeWithRetry, analyzeMeetingContent and
\* writeToNotion.  Records are created or not, and the call goes on to the
\* Done write when the three results passed, to the catch otherwise; a
\* write-back can fail after it created records (C29) and succeed without
\* any (no action item).
FleetAgents(i) ==
  /\ ipc[i] = "agents"
  /\ runs' = [runs EXCEPT ![icur[i]] = Append(@, i)]
  /\ \E anyCreated \in BOOLEAN, passed \in BOOLEAN :
       /\ records' = IF anyCreated THEN [records EXCEPT ![icur[i]] = Append(@, i)]
                     ELSE records
       /\ ipc' = [ipc EXCEPT ![i] = IF passed THEN "setDone" ELSE CatchTarget]
  /\ UNCHANGED <<status, written, ipages, icur, attemptsOf, fleetFrame>>

\* processPage, line 200
FleetSetDone(i) ==
  /\ ipc[i] = "setDone"
  /\ \E ok \in BOOLEAN :
       /\ FleetStatusWrite(i, "Done", ok)
       /\ attemptsOf' = [attemptsOf EXCEPT ![icur[i]] = Append(@, <<"Done", ok>>)]
       /\ ipc' = [ipc EXCEPT ![i] = IF ~StatusWriteThrows(ok) THEN "forPages"
                                    ELSE CatchTarget]
  /\ UNCHANGED <<ipages, icur, runs, records, fleetFrame>>

\* processPage, lines 203-213
FleetSetError(i) ==
  /\ ipc[i] = "setError"
  /\ \E ok \in BOOLEAN :
       /\ FleetStatusWrite(i, "Error", ok)
       /\ attemptsOf' = [attemptsOf EXCEPT ![icur[i]] = Append(@, <<"Error", ok>>)]
  /\ ipc' = [ipc EXCEPT ![i] = "forPages"]
  /\ UNCHANGED <<ipages, icur, runs, records, fleetFrame>>

\* runCoordinator, line 248
FleetWait(i) ==
  /\ ipc[i] = "wait"
  /\ ipc' = [ipc EXCEPT ![i] = AfterWait]
  /\ UNCHANGED <<status, written, ipages, icur, runs, records, attemptsOf, fleetFrame>>

\* No coordinator instance of the fleet runs.
FleetIdle ==
  /\ ipc = [i \in Instances |-> "off"]
  /\ ipages = [i \in Instances |-> <<>>]
  /\ icur = [i \in Instances |-> NoDoc]
  /\ runs = [d \in Docs |-> <<>>]
  /\ records = [d \in Docs |-> <<>>]
  /\ attemptsOf = [d \in Docs |-> <<>>]

\* ---------------------------------------------------------- specifications
Init ==
  /\ pc = "loadConfig"
  /\ cfgError = "none"
  /\ envSet \in [1..Len(RequiredEnv) -> BOOLEAN]
  /\ exitCode = NoExit
  /\ pollInterval = 0
  /\ status \in [Docs -> InitialStatuses]
  /\ found = <<>>
  /\ pages = <<>>
  /\ queryThrew = FALSE
  /\ delay = 0
  /\ cur = NoDoc
  /\ step = "idle"
  /\ scraperResult = NoResult
  /\ analystResult = NoAnalysis
  /\ writerResult = NoWrite
  /\ rpc = "idle"
  /\ maxRetries = 0
  /\ attempt = 0
  /\ retryResult = NoResult
  /\ attemptLog = <<>>
  /\ sleeps = <<>>
  /\ sessionLoaded = FALSE
  /\ navigated = FALSE
  /\ browsersOpen = 0
  /\ peakOpen = 0
  /\ ExtractIdle
  /\ ScrollIdle
  /\ AnalystIdle
  /\ WriterIdle
  /\ FleetIdle
  /\ WalkIdle
  /\ written = [d \in Docs |-> <<>>]
  /\ statusAttempts = <<>>
  /\ stageCalls = <<>>
  /\ callDocs = <<>>
  /\ created = 0
  /\ appended = <<>>

Next ==
  \/ LoadConfig
  \/ FindPages
  \/ ForPages
  \/ Wait
  \/ SetProcessing
  \/ ScrapeAttempt
  \/ BackoffSleep
  \/ ScrapeReturn
  \/ Analyze
  \/ Write
  \/ SetDone
  \/ SetError

Spec == Init /\ [][Next]_vars

\* Every external call and every timer eventually returns or fires.
FairSpec == Spec /\ WF_vars(Next)

\* scrapeWithRetry on its own, for every maxRetries.
RetryInit ==
  /\ pc = "retryOnly"
  /\ cfgError = "none"
  /\ envSet = [i \in 1..Len(RequiredEnv) |-> TRUE]
  /\ exitCode = NoExit
  /\ pollInterval = 0
  /\ status = [d \in Docs |-> "Ready to Process"]
  /\ found = <<>>
  /\ pages = <<>>
  /\ queryThrew = FALSE
  /\ delay = 0
  /\ cur = NoDoc
  /\ step = "idle"
  /\ scraperResult = NoResult
  /\ analystResult = NoAnalysis
  /\ writerResult = NoWrite
  /\ maxRetries \in -1..MaxRetriesBound
  /\ attempt = 1
  /\ rpc = RetryEntry(maxRetries).rpc
  /\ retryResult = RetryEntry(maxRetries).retryResult
  /\ attemptLog = <<>>
  /\ sleeps = <<>>
  /\ sessionLoaded = FALSE
  /\ navigated = FALSE
  /\ browsersOpen = 0
  /\ peakOpen = 0
  /\ ExtractIdle
  /\ ScrollIdle
  /\ AnalystIdle
  /\ WriterIdle
  /\ FleetIdle
  /\ WalkIdle
  /\ written = [d \in Docs |-> <<>>]
  /\ statusAttempts = <<>>
  /\ stageCalls = <<>>
  /\ callDocs = <<>>
  /\ created = 0
  /\ appended = <<>>

RetryNext ==
  \/ ScrapeAttempt
  \/ BackoffSleep

RetrySpec == RetryInit /\ [][RetryNext]_vars

\* The coordinator and the retry wrapper at rest, for the specifications of
\* the parts that run without them.
ParkedWith(p, st) ==
  /\ pc = p
  /\ cfgError = "none"
  /\ envSet = [i \in 1..Len(RequiredEnv) |-> TRUE]
  /\ exitCode = NoExit
  /\ pollInterval = 0
  /\ status = st
  /\ found = <<>>
  /\ pages = <<>>
  /\ queryThrew = FALSE
  /\ delay = 0
  /\ cur = NoDoc
  /\ step = "idle"
  /\ scraperResult = NoResult
  /\ analystResult = NoAnalysis
  /\ writerResult = NoWrite
  /\ rpc = "idle"
  /\ maxRetries = 0
  /\ attempt = 0
  /\ retryResult = NoResult
  /\ attemptLog = <<>>
  /\ sleeps = <<>>
  /\ sessionLoaded = FALSE
  /\ navigated = FALSE
  /\ browsersOpen = 0
  /\ peakOpen = 0
  /\ written = [d \in Docs |-> <<>>]
  /\ statusAttempts = <<>>
  /\ stageCalls = <<>>
  /\ callDocs = <<>>
  /\ created = 0
  /\ appended = <<>>

Parked(p) == ParkedWith(p, [d \in Docs |-> "Ready to Process"])

\* extractData on its own, for every page id and environment.
ExtractInit ==
  /\ Parked("extractOnly")
  /\ xpc = "start"
  /\ pageId \in BOOLEAN
  /\ notionToken \in BOOLEAN
  /\ apiBlocks = <<>>
  /\ apiResult = NoResult
  /\ playwrightResult = NoResult
  /\ extractResult = NoExtract
  /\ agentCalls = <<>>
  /\ xAuth = "none"
  /\ xNavigated = FALSE
  /\ xAuthFile = FALSE
  /\ ScrollIdle
  /\ AnalystIdle
  /\ WriterIdle
  /\ FleetIdle
  /\ WalkIdle

ExtractNext ==
  \/ ExtractViaApi
  \/ ExtractViaPlaywright

ExtractSpec == ExtractInit /\ [][ExtractNext]_vars

\* The block trees of up to n blocks.
RECURSIVE Trees(_)
Trees(n) ==
  IF n = 0 THEN {<<>>}
  ELSE Trees(n - 1) \cup {Append(t, p) : t \in {u \in Trees(n - 1) : Len(u) = n - 1}, p \in 0..(n - 1)}

\* extractData with the block walk: the page has a block tree, the API
\* splits every children list into pages somehow, and one list call at
\* most throws.
WalkInit ==
  /\ Parked("walkOnly")
  /\ xpc = "walk"
  /\ pageId = TRUE
  /\ notionToken = TRUE
  /\ apiBlocks = <<>>
  /\ apiResult = NoResult
  /\ playwrightResult = NoResult
  /\ extractResult = NoExtract
  /\ agentCalls = <<>>
  /\ xAuth = "none"
  /\ xNavigated = FALSE
  /\ xAuthFile = FALSE
  /\ ScrollIdle
  /\ AnalystIdle
  /\ WriterIdle
  /\ FleetIdle
  /\ wParent \in Trees(MaxTreeBlocks)
  /\ wCuts \in SUBSET (1..Len(wParent))
  /\ wFail \in 0..(Len(wParent) + 1)
  /\ wMarked \in 0..Len(wParent)
  /\ walked = <<>>
  /\ listCalls = <<>>

WalkNext ==
  \/ ExtractViaApiWalk
  \/ ExtractViaPlaywright

WalkSpec == WalkInit /\ [][WalkNext]_vars

\* smartScroll on its own, for every maxScrolls: lines 25-28.
ScrollInit ==
  /\ Parked("scrollOnly")
  /\ ExtractIdle
  /\ AnalystIdle
  /\ WriterIdle
  /\ FleetIdle
  /\ WalkIdle
  /\ maxScrolls \in 0..MaxScrollsBound
  /\ spc = ScrollLoop(0, maxScrolls)
  /\ scrollCount = 0
  /\ previousHeight = 0
  /\ heights = <<>>
  /\ scrolls = 0
  /\ waits = 0

ScrollNext ==
  \/ ReadHeight
  \/ ScrollBy
  \/ WaitAfterScroll

ScrollSpec == ScrollInit /\ [][ScrollNext]_vars

\* analyzeMeetingContent on its own, for every outcome of the model call.
AnalystInit ==
  /\ Parked("analystOnly")
  /\ ExtractIdle
  /\ ScrollIdle
  /\ apc = "call"
  /\ modelOutcome = ModelOutcome("nocontent", JsonNull)
  /\ WriterIdle
  /\ FleetIdle
  /\ WalkIdle

AnalystNext == AnalyzeCall

AnalystSpec == AnalystInit /\ [][AnalystNext]_vars

\* writeToNotion on its own, for every input data.
WriterInit ==
  /\ Parked("writerOnly")
  /\ ExtractIdle
  /\ ScrollIdle
  /\ AnalystIdle
  /\ wpc = "call"
  /\ wData \in WriterInputs
  /\ createLog = <<>>
  /\ updateThrew = FALSE
  /\ FleetIdle
  /\ WalkIdle

WriterNext == WriteCall

WriterSpec == WriterInit /\ [][WriterNext]_vars

\* The instances of the set active have loaded their configuration and are
\* about to issue their first query; the others do not run.  The pages have
\* the statuses st.
FleetInit(active, st) ==
  /\ ParkedWith("fleet", st)
  /\ ExtractIdle
  /\ ScrollIdle
  /\ AnalystIdle
  /\ WriterIdle
  /\ WalkIdle
  /\ ipc = [i \in Instances |-> IF i \in active THEN "query" ELSE "off"]
  /\ ipages = [i \in Instances |-> <<>>]
  /\ icur = [i \in Instances |-> NoDoc]
  /\ runs = [d \in Docs |-> <<>>]
  /\ records = [d \in Docs |-> <<>>]
  /\ attemptsOf = [d \in Docs |-> <<>>]

FleetNext ==
  \E i \in Instances :
    \/ FleetFindPages(i)
    \/ FleetForPages(i)
    \/ FleetSetProcessing(i)
    \/ FleetAgents(i)
    \/ FleetSetDone(i)
    \/ FleetSetError(i)
    \/ FleetWait(i)

\* A single coordinator instance, over all its poll cycles.
SoloInit == \E st \in [Docs -> InitialStatuses] : FleetInit({1}, st)

SoloSpec == SoloInit /\ [][FleetNext]_vars

\* Two coordinator instances on the same databases.  One page is Ready to
\* Process; the others were processed before the instances started.
DuoInit ==
  FleetInit(Instances, [d \in Docs |-> IF d = 1 THEN "Ready to Process" ELSE "Done"])

DuoSpec == DuoInit /\ [][FleetNext]_vars

\* The two programs of the repository side by side: the agent-worker's
\* coordinator and the standalone extractor.
PipelineInit == Init \/ ExtractInit

PipelineNext == Next \/ ExtractNext

PipelineSpec == PipelineInit /\ [][PipelineNext]_vars

\* ================================================================= claims
IsPrefix(a, b) == Len(a) <= Len(b) /\ a = SubSeq(b, 1, Len(a))

Attempted(s) == \E i \in 1..Len(statusAttempts) : statusAttempts[i][1] = s

\* A processPage call has ended.
CallEnded == step \in {"returned", "threw"}

\* In the processPage call that has just ended an agent was invoked and
\* failed: a failed result, or an exception (its result was never set).
StageFailed ==
  \/ /\ Len(stageCalls) >= 1
     /\ ~(scraperResult.success /\ scraperResult.content # <<>>)
  \/ /\ Len(stageCalls) >= 2
     /\ ~(analystResult.success /\ analystResult.hasData)
  \/ /\ Len(stageCalls) >= 3
     /\ ~writerResult.success

\* C1: the statuses successfully written to any page, after its initial
\* 'Ready to Process', are a prefix of Processing then Done, or of
\* Processing then Error.
C1_StatusMonotonic ==
  \A d \in Docs :
    \/ IsPrefix(written[d], <<"Processing", "Done">>)
    \/ IsPrefix(written[d], <<"Processing", "Error">>)

\* C2: a processPage call attempts the Done write only after the scraper
\* returned success with non-empty content, the analyst returned success
\* with data and the writer returned success, all in that call.
C2_DoneOnlyAfterAllStages ==
  Attempted("Done") =>
    /\ stageCalls = <<"scraper", "analyst", "writer">>
    /\ scraperResult.success /\ scraperResult.content # <<>>
    /\ analystResult.success /\ analystResult.hasData
    /\ writerResult.success

C2_Witness ==
  /\ step = "returned"
  /\ statusAttempts = << <<"Processing", TRUE>>, <<"Done", TRUE>> >>
  /\ status[cur] = "Done"

\* C3: a processPage call in which an agent failed ends with an attempt to
\* write Error and returns into the for loop with the remaining pages
\* untouched, and the loop then starts on the next discovered page.
C3_StageFailureIsolated ==
  [][ /\ (CallEnded' /\ ~CallEnded /\ StageFailed') =>
           /\ Attempted("Error")'
           /\ ~Attempted("Done")'
           /\ pc' = "forPages"
           /\ pages' = pages
      /\ (pc = "forPages" /\ CallEnded /\ StageFailed /\ pages # <<>>) =>
           /\ pc' = "inPage"
           /\ cur' = Head(pages)
           /\ step' = "setProcessing" ]_vars

C3_Witness ==
  /\ pc = "forPages" /\ CallEnded /\ StageFailed
  /\ pages # <<>>
  /\ statusAttempts = << <<"Processing", TRUE>>, <<"Error", TRUE>> >>

\* C4: an agent is invoked in a processPage call only after the Processing
\* write of that call, its first status write, has succeeded; when that
\* write fails no agent is invoked at all.
C4_ProcessingFirst ==
  /\ stageCalls # <<>> =>
       (statusAttempts # <<>> /\ statusAttempts[1] = <<"Processing", TRUE>>)
  /\ (statusAttempts # <<>> /\ statusAttempts[1] # <<"Processing", TRUE>>) =>
       (stageCalls = <<>> /\ created = 0 /\ appended = <<>>)
  /\ (pc = "inPage" /\ statusAttempts = <<>>) => step = "setProcessing"

C4_Witness ==
  /\ step = "scrape" /\ rpc = "call"
  /\ stageCalls = <<"scraper">>
  /\ statusAttempts = << <<"Processing", TRUE>> >>

\* C5: the pages external calls of a cycle are issued for, in the order of
\* the calls, are the pages the discovery query returned, in its order, each
\* one finished before the next is started.
C5_SequentialInOrder ==
  /\ IsPrefix(callDocs, found)
  /\ (pc = "inPage" /\ step # "setProcessing") =>
       (callDocs # <<>> /\ callDocs[Len(callDocs)] = cur)
  /\ (pc = "inPage" /\ step = "setProcessing") => found[Len(callDocs) + 1] = cur
  /\ pc = "inPage" => pages = SubSeq(found, Len(found) - Len(pages) + 1, Len(found))

C5_Witness ==
  /\ Len(callDocs) = 2
  /\ CallEnded
  /\ callDocs = found

\* C6: once the configuration is loaded the coordinator stays in its poll
\* loop, and from every point of the loop a discovery query is eventually
\* issued again.
C6_RunsForever ==
  /\ [][pc \notin {"loadConfig", "exited"} => pc' \in {"query", "forPages", "inPage", "wait"}]_vars
  /\ (pc \in {"forPages", "inPage", "wait"}) ~> (pc = "query")

C6_Witness ==
  /\ pc = "query"
  /\ \E d \in Docs : written[d] # <<>> /\ status[d] = "Error"

\* C7 as stated: after a discovery query that threw, the poll loop waits
\* the fixed fallback delay.
C7_FallbackDelayAfterQueryFailure ==
  (pc = "wait" /\ queryThrew) => delay = FallbackDelay

\* C7 as amended: a discovery query that threw is an empty result: no page
\* is processed and the poll loop waits pollInterval.
C7_PollIntervalAfterQueryFailure ==
  queryThrew =>
    /\ found = <<>> /\ callDocs = <<>> /\ cur = NoDoc
    /\ pc \in {"forPages", "wait", "query"}
    /\ pc = "wait" => delay = pollInterval

C7_Witness ==
  /\ pc = "wait" /\ queryThrew
  /\ ReadyDocs # {}

\* C8: a failed Error write is the last status write of its processPage
\* call; the call returns normally into the for loop, whose remaining pages
\* are untouched, and the loop then starts on the next discovered page.
ErrorWriteFailed ==
  statusAttempts # <<>> /\ statusAttempts[Len(statusAttempts)] = <<"Error", FALSE>>

C8_ErrorWriteFailureSwallowed ==
  [][ /\ (\E i \in 1..Len(statusAttempts') : statusAttempts'[i] = <<"Error", FALSE>>) =>
           /\ ErrorWriteFailed'
           /\ step' = "returned"
           /\ (statusAttempts' # statusAttempts) => (pc' = "forPages" /\ pages' = pages)
      /\ (pc = "forPages" /\ ErrorWriteFailed) =>
           IF pages # <<>>
             THEN pc' = "inPage" /\ cur' = Head(pages)
             ELSE pc' = "wait" /\ delay' = pollInterval ]_vars

C8_Witness ==
  /\ pc = "forPages" /\ ErrorWriteFailed
  /\ pages # <<>>
  /\ status[cur] = "Processing"

\* Every scrapeMeetingContent call of this scrapeWithRetry returned a failure.
AlwaysFailed ==
  \A i \in 1..Len(attemptLog) : attemptLog[i] \notin {<<"ok">>, <<"throw">>}

\* C9: scrapeWithRetry with maxRetries = n >= 1 whose every attempt returns
\* a failure has, when it returns, made n attempts and n - 1 sleeps, the
\* i-th of 2^i * 1000 ms; it never sleeps after its last attempt.
C9_RetryBound ==
  /\ (rpc = "done" /\ maxRetries >= 1 /\ AlwaysFailed) =>
        /\ Len(attemptLog) = maxRetries
        /\ Len(sleeps) = maxRetries - 1
        /\ ~retryResult.success
  /\ (maxRetries >= 1 /\ AlwaysFailed) =>
        /\ Len(sleeps) <= maxRetries - 1
        /\ Len(sleeps) \in {Len(attemptLog) - 1, Len(attemptLog)}
  /\ \A i \in 1..Len(sleeps) : sleeps[i] = Pow2(i) * 1000

C9_Witness ==
  /\ pc = "retryOnly" /\ rpc = "done" /\ AlwaysFailed
  /\ maxRetries = 3 /\ sleeps = <<2000, 4000>>

\* C10 as stated: the first backoff sleep lasts 1000 ms and every later
\* one twice the one before.
C10_BackoffFromOneSecond ==
  /\ Len(sleeps) >= 1 => sleeps[1] = 1000
  /\ \A i \in 1..(Len(sleeps) - 1) : sleeps[i + 1] = 2 * sleeps[i]

\* C10 as amended: the first backoff sleep lasts 2000 ms and every later
\* one twice the one before.
C10_BackoffFromTwoSeconds ==
  /\ Len(sleeps) >= 1 => sleeps[1] = 2000
  /\ \A i \in 1..(Len(sleeps) - 1) : sleeps[i + 1] = 2 * sleeps[i]

C10_Witness ==
  /\ pc = "retryOnly"
  /\ Len(sleeps) = 3

\* The message msg holds the message part as a run of its parts.
Carries(msg, part) ==
  \E i \in 0..(Len(msg) - Len(part)) : SubSeq(msg, i + 1, i + Len(part)) = part

\* scrapeWithRetry has returned after attempts that all returned a failure.
ExhaustedReturn == rpc = "done" /\ attemptLog # <<>> /\ AlwaysFailed

\* C11 as stated: when every attempt failed, the returned failure's message
\* starts with the number of attempts made and goes on with the message of
\* the last failed attempt.
C11_LastErrorWithCount ==
  ExhaustedReturn =>
    /\ ~retryResult.success
    /\ Head(retryResult.error) = ToString(Len(attemptLog))
    /\ Carries(Tail(retryResult.error), attemptLog[Len(attemptLog)])

\* C11 as amended: when every attempt failed, the returned failure carries
\* one fixed message that holds the number of attempts made (maxRetries)
\* and the message of no attempt.
C11_FixedMessageWithCount ==
  ExhaustedReturn =>
    /\ ~retryResult.success
    /\ retryResult.error =
         <<"content not extracted after", ToString(Len(attemptLog)), "attempts">>
    /\ \A i \in 1..Len(attemptLog) : ~Carries(retryResult.error, attemptLog[i])

C11_Witness ==
  /\ pc = "retryOnly" /\ ExhaustedReturn
  /\ maxRetries = 3
  /\ attemptLog[3] = <<"scrape exception">>
  /\ retryResult.error[2] = "3"

\* The number of entries of the sequence q that equal e.
Count(q, e) == Cardinality({i \in 1..Len(q) : q[i] = e})

\* The last scrapeMeetingContent call of the agent-worker got past the
\* creation of its context without a stored session.
ScrapedWithoutSession ==
  /\ attemptLog # <<>>
  /\ attemptLog[Len(attemptLog)] \in {<<"ok">>, <<"no AI Summary content">>}
  /\ ~sessionLoaded

\* extractViaPlaywright has returned without a context: neither the token
\* cookie nor a stored session was available.
ExtractedWithoutAuth ==
  /\ xpc = "done" /\ Count(agentCalls, "browser") >= 1
  /\ xAuth = "none"

\* C12 as stated: in both browser agents an extraction without a stored
\* session and without a usable credential fails at once: one attempt, no
\* retry, no backoff sleep, and the page is never opened.
C12_NoSessionFailsAtOnce ==
  /\ ScrapedWithoutSession =>
       /\ ~navigated
       /\ Len(attemptLog) = 1 /\ sleeps = <<>>
       /\ rpc \notin {"sleep", "call"}
  /\ ExtractedWithoutAuth =>
       /\ ~xNavigated
       /\ Count(agentCalls, "browser") = 1
       /\ ~extractResult.success

\* C12 as amended: the extractor's extractViaPlaywright without a token
\* cookie and without a stored session returns a failure without opening
\* the page, and extractData calls it once; the agent-worker's
\* scrapeMeetingContent without a stored session opens the page all the same.
C12_OnlyExtractorFailsAtOnce ==
  /\ ExtractedWithoutAuth =>
       /\ ~xNavigated
       /\ Count(agentCalls, "browser") = 1
       /\ ~playwrightResult.success
       /\ ~extractResult.success
  /\ ScrapedWithoutSession => navigated

C12_Witness ==
  /\ ExtractedWithoutAuth
  /\ agentCalls = <<"api", "browser">>
  /\ playwrightResult.error = <<"not authorised">>
  /\ ~xNavigated

\* C13: whatever heights the page reports, smartScroll reads the height at
\* most maxScrolls times, scrolls at most maxScrolls times and waits at most
\* maxScrolls times, and it has ended once scrollCount reaches maxScrolls.
C13_ScrollBounded ==
  /\ Len(heights) <= maxScrolls
  /\ scrolls <= maxScrolls
  /\ waits <= maxScrolls
  /\ scrollCount <= maxScrolls
  /\ (spc \in {"read", "scroll", "wait"}) => scrollCount < maxScrolls

C13_Witness ==
  /\ spc = "done" /\ maxScrolls = 3
  /\ heights = <<1, 2, 3>>
  /\ scrolls = 3 /\ waits = 3

\* C14: when the height read at iteration k + 1 is the first to equal the
\* height read just before it, smartScroll has ended on that read, after
\* exactly k scrolls and k waits.
C14_StopsOnFirstRepeat ==
  \A k \in 1..(Len(heights) - 1) :
    heights[k + 1] = heights[k] =>
      /\ k + 1 = Len(heights)
      /\ k < maxScrolls
      /\ spc = "done"
      /\ scrolls = k /\ waits = k /\ scrollCount = k

C14_Witness ==
  /\ spc = "done" /\ maxScrolls = 4
  /\ heights = <<1, 2, 2>>
  /\ scrolls = 2

\* The texts extractViaAPI collected (blocks without text are skipped) and
\* their concatenation.
ApiTexts == SelectSeq(apiBlocks, LAMBDA t : Len(t) > 0)
ApiText == JoinBlocks(ApiTexts)

\* extractData has got the result of the API agent.
ApiTried == pageId /\ xpc \in {"browser", "done", "threw"}

\* The API agent obtained non-empty text (something is left of it once
\* trimmed), and a block holds a marker or the text is longer than 100.
ApiTextSufficient ==
  /\ Trim(ApiText) # <<>>
  /\ \/ \E i \in 1..Len(ApiTexts) : HasMarker(ApiTexts[i])
     \/ Len(ApiText) > 100

\* C15: extractData returns the API agent's success, tagged 'api', without
\* calling the browser agent, exactly when the API agent obtained non-empty
\* text holding a marker or longer than 100 characters; otherwise the browser
\* agent is called.
C15_ApiAcceptanceRule ==
  ApiTried =>
    IF ApiTextSufficient
      THEN /\ xpc = "done"
           /\ agentCalls = <<"api">>
           /\ extractResult.success /\ extractResult.method = "api"
           /\ extractResult.content # <<>>
      ELSE /\ agentCalls[1] = "api"
           /\ xpc = "browser" \/ Count(agentCalls, "browser") >= 1
           /\ extractResult.method # "api"

C15_Witness ==
  /\ xpc = "done" /\ extractResult.method = "api"
  /\ apiBlocks = <<Rep("x", 50), Rep("x", 49)>>
  /\ agentCalls = <<"api">>

\* extractData has returned after a browser extraction that failed though
\* it had a context.
BrowserFallbackFailed ==
  /\ xpc = "done" /\ Count(agentCalls, "browser") >= 1
  /\ xAuth # "none"
  /\ ~(playwrightResult.success /\ playwrightResult.content # <<>>)

\* C16 as stated: a failed browser extraction of the hybrid extractor is
\* attempted again before extractData reports the failure.
C16_FallbackRetried ==
  BrowserFallbackFailed => Count(agentCalls, "browser") >= 2

\* C16 as amended: extractData calls the browser agent at most once; when
\* that one extraction fails it reports a failure that holds the messages of
\* the API agent and of the browser agent.
C16_FallbackCalledOnce ==
  /\ Count(agentCalls, "browser") <= 1
  /\ BrowserFallbackFailed =>
       /\ agentCalls = <<"api", "browser">>
       /\ ~extractResult.success
       /\ extractResult.error =
            <<"API:">> \o apiResult.error \o <<"; Playwright:">> \o playwrightResult.error

C16_Witness ==
  /\ BrowserFallbackFailed
  /\ xNavigated
  /\ playwrightResult.error = <<"no AI Summary content">>
  /\ apiResult.error = <<"no AI Summary content in the blocks">>

\* C17: when the API agent obtained text shorter than 100 characters without
\* a marker and the browser agent's first call succeeds, extractData has
\* called the browser agent once and returns its content under the browser
\* method tag.
C17_FallbackTrigger ==
  ( /\ xpc = "done" /\ ApiTried /\ notionToken
    /\ Len(ApiText) < 100
    /\ \A i \in 1..Len(ApiTexts) : ~HasMarker(ApiTexts[i])
    /\ playwrightResult.success ) =>
      /\ agentCalls = <<"api", "browser">>
      /\ extractResult.success
      /\ extractResult.method = "playwright"
      /\ extractResult.content = playwrightResult.content
      /\ extractResult.content # <<>>

C17_Witness ==
  /\ xpc = "done"
  /\ apiBlocks = <<Rep("x", 40)>>
  /\ agentCalls = <<"api", "browser">>
  /\ extractResult.method = "playwright"
  /\ extractResult.content = <<"a">>

\* Every browser call of extractData came after an API call whose result
\* was turned down.
BrowserAfterRejectedApi ==
  \A i \in 1..Len(agentCalls) :
    agentCalls[i] = "browser" =>
      /\ i >= 2 /\ agentCalls[1] = "api"
      /\ ~(apiResult.success /\ apiResult.content # <<>>)

\* C18 as stated: for every document, in the coordinator as in the hybrid
\* extractor, the browser agent runs only after the API agent was tried.
C18_BrowserOnlyAfterApi ==
  /\ BrowserAfterRejectedApi
  /\ \A i \in 1..Len(stageCalls) :
       stageCalls[i] = "scraper" => \E j \in 1..(i - 1) : stageCalls[j] = "api"

\* C18 as amended: in the hybrid extractor the browser agent runs only after
\* the API agent was tried and turned down; the coordinator runs the browser
\* agent as the first agent of every document, without any API extraction.
C18_FallbackOnlyInExtractor ==
  /\ BrowserAfterRejectedApi
  /\ stageCalls # <<>> =>
       /\ stageCalls[1] = "scraper"
       /\ agentCalls = <<>>
       /\ xpc = "idle"

C18_Witness ==
  /\ xpc = "done"
  /\ apiBlocks = <<Rep("x", 100)>>
  /\ ~apiResult.success
  /\ agentCalls = <<"api", "browser">>

\* C19: no exception leaves analyzeMeetingContent; whatever the model call
\* did, the result is a failure with an error message or a success with
\* data, a failure when the call threw, gave no content or gave text that is
\* not JSON, and a success only when the content parsed as JSON.
C19_AnalystNeverThrows ==
  /\ apc # "threw"
  /\ apc = "done" =>
       /\ \/ /\ analystResult.success /\ analystResult.hasData
             /\ analystResult.error = "none"
          \/ /\ ~analystResult.success /\ ~analystResult.hasData
             /\ analystResult.error \in {"analysis exception", "no content", "invalid JSON"}
       /\ modelOutcome.kind \in {"throw", "nocontent", "badjson"} => ~analystResult.success
       /\ analystResult.success => modelOutcome.kind = "json"

C19_Witness ==
  /\ apc = "done"
  /\ modelOutcome.kind = "json"
  /\ modelOutcome.json.actionItems = JsonArray(<<ElementTitled, ElementNull>>)
  /\ ~analystResult.success
  /\ analystResult.error = "invalid JSON"

\* C20: in every successful result actionItems and keyDecisions are arrays;
\* a property that is missing, null or not an array in the model's JSON
\* gives the empty array, and an array gives an array of the same length.
C20_ArraysInEverySuccess ==
  (apc = "done" /\ analystResult.success) =>
    /\ analystResult.data.actionItems.kind = "array"
    /\ analystResult.data.keyDecisions.kind = "array"
    /\ IF modelOutcome.json.actionItems.kind = "array"
         THEN Len(analystResult.data.actionItems.elems)
                = Len(modelOutcome.json.actionItems.elems)
         ELSE analystResult.data.actionItems = [kind |-> "array", elems |-> <<>>]
    /\ IF modelOutcome.json.keyDecisions.kind = "array"
         THEN Len(analystResult.data.keyDecisions.elems)
                = Len(modelOutcome.json.keyDecisions.elems)
         ELSE analystResult.data.keyDecisions = [kind |-> "array", elems |-> <<>>]

C20_Witness ==
  /\ apc = "done" /\ analystResult.success
  /\ modelOutcome.json.actionItems.kind = "null"
  /\ modelOutcome.json.keyDecisions.kind = "string"
  /\ analystResult.data.actionItems.elems = <<>>
  /\ analystResult.data.keyDecisions.elems = <<>>

\* The elements of a property of the model's JSON are all objects.
AllObjects(f) == \A i \in 1..Len(f.elems) : f.elems[i].kind = "object"

\* The title normalization has to give for a title of the model's JSON.
TitleOrEmpty(t) == IF t = NullText THEN <<>> ELSE t

\* C21: normalization drops no element.  A JSON object whose arrays hold
\* only objects is analysed with success, and in every successful result an
\* array of n elements gives n elements in the same order: the i-th result
\* element has the fields of the i-th input element, its title replaced by
\* the empty string when the input element had none.
C21_NoElementDropped ==
  LET in == modelOutcome.json
      out == analystResult.data
  IN apc = "done" =>
       /\ (modelOutcome.kind = "json" /\ in.type = "object"
             /\ AllObjects(in.actionItems) /\ AllObjects(in.keyDecisions))
            => analystResult.success
       /\ (analystResult.success /\ in.actionItems.kind = "array") =>
            /\ Len(out.actionItems.elems) = Len(in.actionItems.elems)
            /\ \A i \in 1..Len(in.actionItems.elems) :
                 LET e == in.actionItems.elems[i].fields
                     n == out.actionItems.elems[i]
                 IN /\ n.title = TitleOrEmpty(e.title)
                    /\ n.description = e.description
                    /\ n.assignee = e.assignee
                    /\ n.dueDate = e.dueDate
                    /\ n.priority = e.priority
       /\ (analystResult.success /\ in.keyDecisions.kind = "array") =>
            /\ Len(out.keyDecisions.elems) = Len(in.keyDecisions.elems)
            /\ \A i \in 1..Len(in.keyDecisions.elems) :
                 LET e == in.keyDecisions.elems[i].fields
                     n == out.keyDecisions.elems[i]
                 IN /\ n.title = TitleOrEmpty(e.title)
                    /\ n.description = e.description
                    /\ n.context = e.context

C21_Witness ==
  /\ apc = "done" /\ analystResult.success
  /\ modelOutcome.json.actionItems = JsonArray(<<ElementEmpty, ElementFull>>)
  /\ modelOutcome.json.keyDecisions = JsonArray(<<ElementTitled, ElementEmpty>>)
  /\ Len(analystResult.data.actionItems.elems) = 2
  /\ analystResult.data.actionItems.elems[1].title = <<>>
  /\ analystResult.data.actionItems.elems[2].title = <<"t">>
  /\ analystResult.data.keyDecisions.elems[2].title = <<>>

\* The normalized data written as JSON and parsed again: an action item has
\* no context and a decision no assignee, due date or priority, and a
\* property that is undefined is not written.
ItemAsJson(n) ==
  [kind |-> "object",
   fields |-> [NoFields EXCEPT !.title = n.title, !.description = n.description,
                               !.assignee = n.assignee, !.dueDate = n.dueDate,
                               !.priority = n.priority]]

DecisionAsJson(n) ==
  [kind |-> "object",
   fields |-> [NoFields EXCEPT !.title = n.title, !.description = n.description,
                               !.context = n.context]]

AsJson(data) ==
  JsonObject(
    JsonArray([i \in 1..Len(data.actionItems.elems) |->
                 ItemAsJson(data.actionItems.elems[i])]),
    JsonArray([i \in 1..Len(data.keyDecisions.elems) |->
                 DecisionAsJson(data.keyDecisions.elems[i])]),
    data.summary)

\* The result of analysing the normalized data of the last analysis.
AnalysedAgain == analyzeMeetingContent(ModelOutcome("json", AsJson(analystResult.data)))

\* C22: normalization is idempotent; the data of every successful analysis,
\* given back to the analysis as the model's JSON, is analysed with success
\* and gives the same data.
C22_NormalizationIdempotent ==
  (apc = "done" /\ analystResult.success) =>
    /\ AnalysedAgain.success
    /\ AnalysedAgain.data = analystResult.data

C22_Witness ==
  /\ apc = "done" /\ analystResult.success
  /\ modelOutcome.json.actionItems = JsonArray(<<ElementEmpty, ElementFull>>)
  /\ modelOutcome.json.keyDecisions = JsonArray(<<ElementFull>>)
  /\ modelOutcome.json.summary = <<"a">>
  /\ AsJson(analystResult.data) # modelOutcome.json
  /\ AnalysedAgain.data = analystResult.data

\* The number of action items of the data writeToNotion was called with.
ItemCount == Len(wData.actionItems.elems)

\* The input had no action item, or at least one record was created.
RecordsSuffice == ItemCount = 0 \/ (ItemCount >= 1 /\ created >= 1)

\* C23 as stated: writeToNotion returns success exactly when the input had
\* no action item or at least one record was created.
C23_SuccessIffRecords ==
  wpc = "done" => (writerResult.success <=> RecordsSuffice)

\* C23: writeToNotion returns success exactly when the input had no action
\* item or at least one record was created, and no append to the meeting
\* page threw; a success carries the ids of all the records created.
C23_SuccessIffRecordsAndAnnotation ==
  wpc = "done" =>
    /\ writerResult.success <=> (RecordsSuffice /\ ~updateThrew)
    /\ writerResult.success => Len(writerResult.taskIds) = created

C23_Witness ==
  /\ wpc = "done"
  /\ ItemCount = 2 /\ created = 1
  /\ updateThrew
  /\ ~writerResult.success

\* The items of the creations that returned, in the order of the log.
OkCreations(log) == SelectSeq(log, LAMBDA e : e.ok)
OkItems(log) == [i \in 1..Len(OkCreations(log)) |-> OkCreations(log)[i].item]

\* C24: createTasks attempts the creation of every action item once, in
\* input order, whatever the earlier creations did; the records created are
\* those of the creations that returned, and a successful write-back returns
\* their ids in input order.  With 3 items of which the second creation
\* throws, and the page annotated, the result is success with the ids of
\* the first and the third item.
C24_EveryItemAttemptedOnce ==
  wpc = "done" =>
    /\ Len(createLog) = ItemCount
    /\ \A i \in 1..Len(createLog) : createLog[i].item = i
    /\ created = Len(OkItems(createLog))
    /\ writerResult.success => writerResult.taskIds = OkItems(createLog)
    /\ (ItemCount = 3 /\ createLog[1].ok /\ ~createLog[2].ok /\ createLog[3].ok
          /\ ~updateThrew)
         => (writerResult.success /\ writerResult.taskIds = <<1, 3>>)

C24_Witness ==
  /\ wpc = "done"
  /\ ItemCount = 3
  /\ createLog = <<[item |-> 1, ok |-> TRUE], [item |-> 2, ok |-> FALSE],
                   [item |-> 3, ok |-> TRUE]>>
  /\ writerResult.success
  /\ Len(writerResult.taskIds) = 2

\* The write-back failed without any failed append to the meeting page.
FailedByCreation == ~writerResult.success /\ ~updateThrew

\* Every creation of the call threw.
AllCreationsFailed == \A i \in 1..Len(createLog) : ~createLog[i].ok

\* C25 as stated: creation errors fail the write-back only when the input
\* had exactly one action item and its creation failed.
C25_FailsOnlyForSingleItem ==
  (wpc = "done" /\ FailedByCreation) => (ItemCount = 1 /\ ~createLog[1].ok)

\* C25: creation errors fail the write-back exactly when the input had at
\* least one action item and every creation failed, whatever the number of
\* items; when at least one creation returned, the failed ones do not make
\* the write-back fail.
C25_FailsWhenEveryItemFailed ==
  wpc = "done" =>
    /\ FailedByCreation <=> (ItemCount >= 1 /\ AllCreationsFailed)
    /\ (~AllCreationsFailed /\ ~updateThrew) => writerResult.success

C25_Witness ==
  /\ wpc = "done"
  /\ ItemCount = 2
  /\ createLog = <<[item |-> 1, ok |-> FALSE], [item |-> 2, ok |-> FALSE]>>
  /\ FailedByCreation
  /\ writerResult.error = "no task created"

\* The writer was invoked in this processPage call.
WriterRan == Len(stageCalls) = 3

\* The status write this processPage call attempted last.
LastStatusAttempt == statusAttempts[Len(statusAttempts)]

\* The writer was given at least one action item and created no record.
NoRecordCreated ==
  WriterRan /\ Len(analystResult.data.actionItems.elems) >= 1 /\ created = 0

\* C26: when the input has at least one action item and no record was
\* created, writeToNotion returns a failure and nothing is appended to the
\* meeting page, neither the count nor the summary; the call never attempts
\* the Done write, its next and last status write is Error, and the page is
\* left in Error (in Processing when that last write itself fails).
C26_NoRecordNoAnnotation ==
  NoRecordCreated =>
    /\ ~writerResult.success
    /\ writerResult.error = "no task created"
    /\ appended = <<>>
    /\ ~Attempted("Done")
    /\ step = "setError" \/ CallEnded
    /\ CallEnded =>
         /\ LastStatusAttempt[1] = "Error"
         /\ status[cur] = IF LastStatusAttempt[2] THEN "Error" ELSE "Processing"

C26_Witness ==
  /\ NoRecordCreated /\ CallEnded
  /\ analystResult.data.summary = <<"a">>
  /\ appended = <<>>
  /\ status[cur] = "Error"

\* The positions of the appended blocks that tell the number of tasks.
CountBlocks == {i \in 1..Len(appended) : appended[i].type = "count"}

\* C27 as stated: every successful write-back has appended a block telling
\* how many records were created, zero included.
C27_CountBlockAlways ==
  (wpc = "done" /\ writerResult.success) =>
    \E i \in CountBlocks : appended[i].count = created

\* C27: a successful write-back that created at least one record has
\* appended one block telling how many records were created, as its first
\* block; a write-back that created no record appends no such block.
C27_CountBlockWhenRecords ==
  wpc = "done" =>
    /\ (writerResult.success /\ created >= 1) =>
         (CountBlocks = {1} /\ appended[1] = CountBlock(created))
    /\ created = 0 => CountBlocks = {}
    /\ \A i \in CountBlocks : appended[i].count = created

C27_Witness ==
  /\ wpc = "done" /\ writerResult.success
  /\ ItemCount = 0 /\ created = 0
  /\ wData.summary = <<"a">>
  /\ appended = <<SummaryBlock(<<"a">>)>>

\* The positions of the appended blocks that are summary callouts.
CalloutBlocks == {i \in 1..Len(appended) : appended[i].type = "callout"}

\* The data has a summary that is a non-empty string.
SummaryPresent == wData.summary # NullText /\ wData.summary # <<>>

\* C28: with zero action items the write-back attempts no creation and
\* creates no record, and it fails only when the append of the callout
\* throws; a successful write-back has appended the summary callout, with
\* the summary as its text and as the last block, exactly when the data
\* has a non-empty summary.
C28_SummaryCalloutIffSummary ==
  wpc = "done" =>
    /\ ItemCount = 0 =>
         /\ createLog = <<>> /\ created = 0
         /\ writerResult.success <=> ~updateThrew
         /\ ~SummaryPresent => writerResult.success
         /\ writerResult.success => writerResult.taskIds = <<>>
    /\ writerResult.success =>
         /\ CalloutBlocks # {} <=> SummaryPresent
         /\ SummaryPresent =>
              /\ CalloutBlocks = {Len(appended)}
              /\ appended[Len(appended)] = SummaryBlock(wData.summary)

C28_Witness ==
  /\ wpc = "done" /\ writerResult.success
  /\ ItemCount = 0
  /\ writerResult.taskIds = <<>>
  /\ Len(wData.keyDecisions.elems) = 1
  /\ wData.summary = <<" ">>
  /\ CalloutBlocks = {1}

\* In this processPage call an append to the meeting page failed: the
\* writer got past the check of the created records, and the count of a
\* call that created records, or the callout of a non-empty summary, is
\* not on the page.
AppendFailed ==
  /\ WriterRan /\ ~NoRecordCreated
  /\ \/ created >= 1 /\ CountBlocks = {}
     \/ /\ TruthyText(analystResult.data.summary)
        /\ CalloutBlocks = {}

\* C29: when an append to the meeting page fails, the write-back is a
\* failure whatever the number of records created; the processPage call
\* never attempts the Done write, the page is not Done, and the call goes
\* to its Error write, which is its last status write.
C29_AnnotationFailureFailsDocument ==
  AppendFailed =>
    /\ ~writerResult.success
    /\ writerResult.error = "write exception"
    /\ ~Attempted("Done")
    /\ status[cur] # "Done"
    /\ step = "setError" \/ CallEnded
    /\ CallEnded => LastStatusAttempt[1] = "Error"

C29_Witness ==
  /\ AppendFailed /\ CallEnded
  /\ created = 1
  /\ appended = <<CountBlock(1)>>
  /\ LastStatusAttempt = <<"Error", TRUE>>
  /\ status[cur] = "Error"

\* C30 as stated: an exception of an append to the meeting page leaves
\* writeToNotion as an exception.
C30_AnnotationExceptionPropagates ==
  (wpc \in {"done", "threw"} /\ updateThrew) => wpc = "threw"

\* C30: no exception leaves writeToNotion; an exception of an append to the
\* meeting page is caught and returned as a result with success false and
\* an error message, without task ids.
C30_AnnotationExceptionReturned ==
  /\ wpc # "threw"
  /\ (wpc = "done" /\ updateThrew) =>
       /\ ~writerResult.success
       /\ writerResult.error = "write exception"
       /\ writerResult.taskIds = <<>>

C30_Witness ==
  /\ wpc = "done" /\ updateThrew
  /\ ItemCount = 3 /\ created = 3
  /\ appended = <<>>
  /\ writerResult.error = "write exception"

\* A required env variable is not set.
ConfigIncomplete == \E i \in 1..Len(RequiredEnv) : ~envSet[i]

\* No discovery query, status write or agent call has been issued.
NoExternalCall ==
  /\ found = <<>> /\ ~queryThrew
  /\ statusAttempts = <<>> /\ stageCalls = <<>> /\ callDocs = <<>>
  /\ \A d \in Docs : written[d] = <<>>
  /\ created = 0 /\ appended = <<>>

\* C31: when a required env variable is not set, the first step of the
\* process is its last: it ends with exit code 1 and an error naming a
\* variable that is not set (the first of them in the order of the checks),
\* no external call has been issued and the poll loop is never entered; a
\* complete configuration never leads to that exit.
C31_MissingConfigIsFatal ==
  /\ (ConfigIncomplete /\ pc # "loadConfig") =>
       /\ pc = "exited"
       /\ exitCode = FatalExitCode
       /\ \E i \in 1..Len(RequiredEnv) :
            /\ cfgError = RequiredEnv[i]
            /\ ~envSet[i]
            /\ \A j \in 1..(i - 1) : envSet[j]
       /\ NoExternalCall
  /\ ConfigIncomplete => pc \in {"loadConfig", "exited"}
  /\ ~ConfigIncomplete => (pc # "exited" /\ exitCode = NoExit /\ cfgError = "none")

C31_Witness ==
  /\ pc = "exited"
  /\ envSet = <<TRUE, FALSE, TRUE, FALSE>>
  /\ cfgError = "OPENAI_API_KEY"
  /\ exitCode = 1

\* Page d had status Processing when the coordinator started: it is in
\* Processing and no status write has landed on it.
StartedInProcessing(d) == status[d] = "Processing" /\ written[d] = <<>>

\* Page d is in the sequence ps.
Holds(ps, d) == \E i \in 1..Len(ps) : ps[i] = d

\* C33: a page that is in Processing when the coordinator starts is never
\* returned by the discovery query, no processPage call is made for it and
\* no external call is issued for it, so no status write is attempted on it,
\* and it stays in Processing in every step of the coordinator.
C33_StaleProcessingNeverRecovered ==
  /\ [](\A d \in Docs :
         StartedInProcessing(d) =>
           /\ ~Holds(found, d) /\ ~Holds(pages, d)
           /\ cur # d
           /\ ~Holds(callDocs, d))
  /\ [][\A d \in Docs : StartedInProcessing(d) => StartedInProcessing(d)']_vars

C33_Witness ==
  /\ StartedInProcessing(1)
  /\ status[2] = "Done"
  /\ pc = "wait"
  /\ found = <<2>>

\* The pages instance i holds from its last query and has not finished.
Discovered(i) ==
  {ipages[i][k] : k \in 1..Len(ipages[i])}
    \cup (IF ipc[i] = "setProcessing" THEN {icur[i]} ELSE {})

\* C32: the Processing write of a coordinator instance is unconditional - an
\* instance that took a page from its query result never skips it, and when
\* its Processing write returns the page is Processing whatever its status
\* was - so with two instances on the same store a page Ready to Process
\* can go through the agents of both, and its records are created by both.
C32_NoClaimOnReadyDocument ==
  [][\A i \in Instances :
       (ipc[i] = "setProcessing" /\ ipc'[i] # "setProcessing")
         => /\ ipc'[i] \in {"agents", "setError"}
            /\ ipc'[i] = "agents" => /\ status'[icur[i]] = "Processing"
                                     /\ written'[icur[i]] = Append(written[icur[i]], "Processing")]_vars

\* Both instances ran the agents for page 1 and both created records for it;
\* the second Processing write landed on a page that was already Processing.
C32_Witness ==
  /\ runs[1] = <<1, 2>>
  /\ records[1] = <<1, 2>>
  /\ Len(written[1]) >= 2
  /\ written[1][1] = "Processing"
  /\ written[1][2] = "Processing"

\* The status writes of the last processPage call for d were a failed
\* Processing write followed by a failed Error write.
BothWritesFailed(d) == attemptsOf[d] = << <<"Processing", FALSE>>, <<"Error", FALSE>> >>

\* C38: with a single coordinator instance the agents run at most once for a
\* page and its records are created at most once over all poll cycles; a
\* page the instance holds from a query has no status write that succeeded,
\* and when it was processed before, both the Processing and the Error write
\* of that call failed and neither the agents ran nor a record was created.
C38_ProcessedAtMostOnce ==
  /\ \A d \in Docs : Len(runs[d]) <= 1 /\ Len(records[d]) <= 1
  /\ \A d \in Discovered(1) :
        /\ written[d] = <<>>
        /\ attemptsOf[d] # <<>> => BothWritesFailed(d) /\ runs[d] = <<>> /\ records[d] = <<>>

\* A page is taken for processing a second time, after a call whose two
\* status writes failed, while another page went through the agents once and
\* is Done.
C38_Witness ==
  /\ \E d \in Docs : ipc[1] = "setProcessing" /\ icur[1] = d /\ BothWritesFailed(d)
  /\ \E d \in Docs : runs[d] = <<1>> /\ records[d] = <<1>> /\ status[d] = "Done"

\* extractViaPlaywright was called and got past the browser launch.
BrowserAgentRan == xpc = "done" /\ Count(agentCalls, "browser") >= 1

Successes == {i \in 1..Len(attemptLog) : attemptLog[i] = <<"ok">>}

\* C35: scrapeWithRetry returns the result of its first successful attempt,
\* which is its last attempt and is followed by no sleep; the k-th attempt
\* is preceded by exactly k - 1 backoff sleeps; the attempts never exceed
\* maxRetries, and with maxRetries <= 0 there is no attempt and no sleep
\* and a failure is returned.
C35_FirstSuccessEndsRetry ==
  /\ \A i \in Successes :
        /\ i = Len(attemptLog)
        /\ rpc = "done" /\ retryResult.success
        /\ Len(sleeps) = i - 1
  /\ rpc = "call" => Len(sleeps) = Len(attemptLog)
  /\ rpc # "call" /\ attemptLog # <<>> => Len(sleeps) \in {Len(attemptLog) - 1, Len(attemptLog)}
  /\ rpc = "sleep" => Len(sleeps) = Len(attemptLog) - 1
  /\ pc = "retryOnly" =>
        /\ Len(attemptLog) <= IF maxRetries > 0 THEN maxRetries ELSE 0
        /\ maxRetries <= 0 => rpc = "done" /\ sleeps = <<>> /\ ~retryResult.success

\* The third attempt of four allowed succeeded after two failures and two
\* sleeps, and scrapeWithRetry returned its result.
C35_Witness ==
  /\ pc = "retryOnly" /\ rpc = "done" /\ maxRetries = 4
  /\ Len(attemptLog) = 3 /\ Successes = {3}
  /\ sleeps = <<2000, 4000>>
  /\ retryResult.success

\* The attempts of the running scrapeWithRetry call that threw.
Throws == {i \in 1..Len(attemptLog) : attemptLog[i] = <<"throw">>}

\* C39: an exception thrown by scrapeMeetingContent leaves scrapeWithRetry
\* with the attempt that threw - that attempt is the last one and no
\* backoff sleep follows it - and the next step of processPage is its catch
\* block, which writes Error: the page is not scraped again.
C39_LaunchExceptionNotRetried ==
  /\ [](\A i \in Throws :
          /\ i = Len(attemptLog)
          /\ rpc = "threw"
          /\ Len(sleeps) = i - 1)
  /\ [][rpc = "threw" /\ pc = "inPage" =>
          /\ step' = "setError"
          /\ rpc' = "idle"
          /\ stageCalls' = stageCalls]_vars
  /\ [][step = "setError" =>
          /\ Len(statusAttempts') = Len(statusAttempts) + 1
          /\ statusAttempts'[Len(statusAttempts')][1] = "Error"]_vars

\* The first attempt for a page threw: one attempt, no sleep.
C39_Witness ==
  /\ pc = "inPage" /\ step = "scrape" /\ rpc = "threw"
  /\ attemptLog = << <<"throw">> >>
  /\ sleeps = <<>>

\* C40: between the steps of the coordinator no browser launched by
\* scrapeMeetingContent is left without a close() call, whether the call
\* returned content, returned no content or caught an exception; so over
\* the retries of a page and over the pages of all cycles at most one
\* browser is open at any time.
C40_BrowserClosedOnEveryPath ==
  /\ browsersOpen = 0
  /\ peakOpen <= 1

\* A second page is being scraped after the first page ended; its first
\* attempt caught an exception, its second found no content and its third
\* returned content, each with a browser of its own.
C40_Witness ==
  /\ pc = "inPage" /\ step = "scrape"
  /\ \E d \in Docs : d # cur /\ status[d] \in {"Done", "Error"}
  /\ Len(attemptLog) = 3
  /\ attemptLog[1] = <<"scrape exception">>
  /\ attemptLog[2] \notin {<<"scrape exception">>, <<"ok">>, <<"throw">>}
  /\ attemptLog[3] = <<"ok">>
  /\ peakOpen = 1 /\ browsersOpen = 0

\* The blocks below block p in document order: each child, followed by the
\* blocks below it, child after child.
RECURSIVE Below(_), BelowEach(_)
Below(p) == BelowEach(Kids(p))
BelowEach(ks) ==
  IF ks = <<>> THEN <<>>
  ELSE <<Head(ks)>> \o Below(Head(ks)) \o BelowEach(Tail(ks))

\* The blocks of the page in document order.
DocumentOrder == Below(0)

\* The walk of extractViaAPI has ended.
WalkEnded == pc = "walkOnly" /\ xpc # "walk"

\* The list calls of the walk that threw.
FailedCalls == {i \in 1..Len(listCalls) : ~listCalls[i].ok}

\* The list calls made for the children of block p, in order.
CallsFor(p) == SelectSeq(listCalls, LAMBDA c : c.block = p)

\* The position of block b in the sequence q (0: not in it).
PosIn(q, b) == IF \E i \in 1..Len(q) : q[i] = b THEN CHOOSE i \in 1..Len(q) : q[i] = b ELSE 0

\* C36: when no list call fails, getAllBlocksRecursive asks for the pages of
\* the children list of the page and of every block that has children, one
\* call per page in order and the last with has_more false, and returns
\* every block of the tree exactly once, each parent before its children
\* and in document order; the texts extractViaAPI joins are the texts of
\* the blocks in that order.
C36_WalkReturnsDocumentOrder ==
  (WalkEnded /\ FailedCalls = {}) =>
    /\ \A p \in {0} \cup TreeBlocks :
          LET cs == CallsFor(p) IN
          /\ Len(cs) = IF p = 0 \/ HasChildren(p) THEN Len(ChildPages(p)) ELSE 0
          /\ \A k \in 1..Len(cs) : cs[k].page = k /\ (cs[k].more <=> k < Len(cs))
    /\ Len(walked) = Len(wParent)
    /\ \A b \in TreeBlocks : Cardinality({i \in 1..Len(walked) : walked[i] = b}) = 1
    /\ \A b \in TreeBlocks : wParent[b] # 0 => PosIn(walked, wParent[b]) < PosIn(walked, b)
    /\ walked = DocumentOrder
    /\ apiBlocks = TextsOf(DocumentOrder)

\* Blocks 1 and 2 are on two pages of the children list of the page and
\* block 3 is the child of block 1: the walk made three list calls and
\* returned 1, 3, 2.
C36_Witness ==
  /\ WalkEnded /\ FailedCalls = {}
  /\ wParent = <<0, 0, 1>> /\ wCuts = {1}
  /\ walked = <<1, 3, 2>>
  /\ Len(listCalls) = 3
  /\ listCalls[1].more /\ ~listCalls[3].more

\* The text extractViaAPI joins from the blocks it was given.
JoinedText == JoinBlocks(SelectSeq(apiBlocks, LAMBDA t : t # <<>>))

\* The sequence a is b with some entries left out.
RECURSIVE IsSubsequence(_, _)
IsSubsequence(a, b) ==
  IF a = <<>> THEN TRUE
  ELSE IF b = <<>> THEN FALSE
  ELSE IF Head(a) = Head(b) THEN IsSubsequence(Tail(a), Tail(b))
  ELSE IsSubsequence(a, Tail(b))

\* C37: a list call that throws during the walk raises nothing in
\* extractViaAPI: the walk returns the blocks it pushed, which are blocks of
\* the page in document order with some left out, extractViaAPI works on
\* their texts as on a complete page, and when that text holds a marker or
\* is longer than 100 characters extractData returns success with method
\* 'api' and the browser agent is not called.
C37_FailedListCallSwallowed ==
  (WalkEnded /\ FailedCalls # {}) =>
    /\ apiResult.error # <<"Notion API exception">>
    /\ IsSubsequence(walked, DocumentOrder)
    /\ apiBlocks = TextsOf(walked)
    /\ (HasMarker(JoinedText) \/ Len(JoinedText) > 100) =>
          /\ xpc = "done"
          /\ extractResult.success /\ extractResult.method = "api"
          /\ agentCalls = <<"api">>

\* The list call for the children of block 1 threw: block 3 is missing, the
\* walk went on to block 2, and the 102 characters of blocks 1 and 2 were
\* accepted as the result of the API method.
C37_Witness ==
  /\ WalkEnded /\ FailedCalls = {2}
  /\ wParent = <<0, 0, 1>> /\ wMarked = 0
  /\ walked = <<1, 2>>
  /\ xpc = "done" /\ extractResult.success /\ extractResult.method = "api"
  /\ agentCalls = <<"api">>

====
